---- MODULE Spec2Model ----
EXTENDS Integers, Sequences, FiniteSets, TLC

(***************************************************************************)
(* A model of the PawPal back end: the document collections, the identity  *)
(* middleware (protect, authorize, authorizeVetAccess) and the route       *)
(* handlers for appointments, pets, medical records and clinic staff.      *)
(* Every handler is one action: it reads the request, runs its lookups,    *)
(* writes the collections and sets `response`.  Documents are records with *)
(* an `_id`; collections are sets of documents.                            *)
(***************************************************************************)

VARIABLES
  owners,        \* PetOwner collection
  vets,          \* Veterinarian collection
  clinics,       \* Clinic collection
  staff,         \* ClinicStaff collection
  pets,          \* PetProfile collection
  appointments,  \* Appointment collection
  records,       \* MedicalRecord collection
  inflight,      \* bookAppointment requests between their lookup and their save
  messages,      \* ChatMessage collection
  prescriptions, \* Prescription collection
  response       \* the last response sent: [op, user, args, status, data]

vars == <<owners, vets, clinics, staff, pets, appointments, records, inflight,
          messages, prescriptions, response>>

\* ------------------------------------------------------------------ bounds

MaxAppointments == 2      \* appointments stored
MaxRecords == 2           \* medical records stored
MaxPets == 2              \* pet profiles stored
MaxStaff == 2             \* clinic staff documents stored
MaxVets == 4              \* veterinarian documents stored
MaxClinics == 3           \* clinic documents stored
MaxMessages == 2          \* chat messages stored
MaxPrescriptions == 1     \* prescriptions stored

\* ------------------------------------------------------- JavaScript values

\* null / undefined / a missing body field: all falsy
NullId == ""

\* a JavaScript string and a BSON ObjectId holding the same 24 hex digits
Str(v) == <<"string", v>>
Oid(v) == <<"ObjectId", v>>

\* x.toString()
ToStr(x) == <<"string", x[2]>>

\* a === b : without conversion; a string never equals an ObjectId, and two
\* ObjectId objects are equal only when they are the same object
StrictEq(a, b) == a[1] = "string" /\ b[1] = "string" /\ a[2] = b[2]

\* new Date(text): the text of a request is [given, valid, hour, offset];
\* the instant is the hour in UTC, InvalidDate when the text does not parse
InvalidDate == -1
NewDate(d) == IF d.valid THEN d.hour - d.offset ELSE InvalidDate

\* ------------------------------------------------------------- collections

FindById(coll, id) == {d \in coll : d._id = id}
Exists(coll, id) == FindById(coll, id) # {}
TheDoc(coll, id) == CHOOSE d \in coll : d._id = id

\* a new document id: documents of these collections are never removed
NewId(prefix, coll) == prefix \o ToString(Cardinality(coll) + 1)

\* ------------------------------------------------------- identity (protect)

NoUser == [id |-> Oid(NullId), email |-> "", role |-> "", accessLevel |-> "",
           clinicId |-> NullId, ownedClinics |-> {}]

\* the token login issues: {id, email, role}; a legacy token has role ""
Token(id, role) == [id |-> id, role |-> role]

\* mutant of the legacy lookup: only the Veterinarian collection is probed
legacyRoleVetOnly(id) == IF Exists(vets, id) THEN "vet" ELSE ""

\* the role protect adopts for a token without one: Veterinarian.findById
\* first, PetOwner.findById second, "" when neither has the id
legacyRole(id) ==
  IF Exists(vets, id) THEN "vet" ELSE IF Exists(owners, id) THEN "owner" ELSE ""

\* mutant of the status test: every veterinarian passes
vetInactiveNever(v) == FALSE

\* if (role === 'vet' && user.status !== 'Active')
vetInactive(v) == v.status # "Active"

\* protect: [status, user]; 401 leaves the request without a handler
protect(token) ==
  LET role == IF token.role \in {"owner", "vet"} THEN token.role ELSE legacyRole(token.id)
  IN  IF token.id = NullId \/ role = ""
        THEN [status |-> 401, user |-> NoUser]
      ELSE IF role = "owner"
        THEN IF ~Exists(owners, token.id)
               THEN [status |-> 401, user |-> NoUser]
               ELSE [status |-> 200,
                     user |-> [id |-> Oid(token.id),
                               email |-> TheDoc(owners, token.id).email,
                               role |-> "owner", accessLevel |-> "",
                               clinicId |-> NullId, ownedClinics |-> {}]]
      ELSE IF ~Exists(vets, token.id) \/ vetInactive(TheDoc(vets, token.id))
        THEN [status |-> 401, user |-> NoUser]
        ELSE LET v == TheDoc(vets, token.id)
             IN  [status |-> 200,
                  user |-> [id |-> Oid(token.id), email |-> v.email, role |-> "vet",
                            accessLevel |-> v.accessLevel,
                            clinicId |-> v.currentActiveClinicId,
                            ownedClinics |-> v.ownedClinics]]

\* the tokens in circulation: login issues one per account, with its role
IssuedTokens ==
  {Token(o._id, "owner") : o \in owners} \cup {Token(v._id, "vet") : v \in vets}

\* the principals protect attaches to a request
Principals == {protect(t).user : t \in {t \in IssuedTokens : protect(t).status = 200}}

\* authorize(...roles)
authorize(roles, user) ==
  IF user.role = "" THEN 401 ELSE IF user.role \notin roles THEN 403 ELSE 200

\* authorizeVetAccess(...levels)
authorizeVetAccess(levels, user) ==
  IF user.role # "vet" THEN 403 ELSE IF user.accessLevel \notin levels THEN 403 ELSE 200

Respond(op, user, args, status, data) ==
  response' = [op |-> op, user |-> user, args |-> args, status |-> status, data |-> data]

\* ---------------------------------------------------------------- fixtures
\* Accounts, clinics and pets the handlers below act on.  Each is a state the
\* program reaches: registerOwner twice; registerVet (isPrimaryVet) and
\* createClinic for v1 and v2; addClinicStaff for v3 and s1; createPet for p1
\* (with clinicId c1) and p2 (without a clinic).

\* bcrypt.hash(password, salt) and bcrypt.compare(password, hash)
bcryptHash(password) == "$2a$12$" \o password
bcryptCompare(password, hash) == hash = bcryptHash(password)

\* toObject() followed by delete response.passwordHash; select('-passwordHash')
withoutPasswordHash(doc) == [f \in (DOMAIN doc) \ {"passwordHash"} |-> doc[f]]

Owner(id) == [_id |-> id, email |-> id \o "@pawpal.test",
              passwordHash |-> bcryptHash("pw-" \o id)]

Vet(id, level, owned, active) ==
  [_id |-> id, email |-> id \o "@pawpal.test", veterinaryId |-> "lic-" \o id,
   accessLevel |-> level, ownedClinics |-> owned, clinicId |-> active,
   currentActiveClinicId |-> active, status |-> "Active",
   passwordHash |-> bcryptHash("pw-" \o id)]

Pet(id, ownerId, clinicId) ==
  [_id |-> id, ownerId |-> ownerId, name |-> "pet", registrationStatus |-> "Pending",
   registeredClinicId |-> clinicId, isDeleted |-> FALSE]

FixtureOwners == {Owner("o1"), Owner("o2")}
FixtureVets == {Vet("v1", "Primary", {"c1"}, "c1"), Vet("v2", "Primary", {"c2"}, "c2"),
                Vet("v3", "Normal Access", {}, "c1")}
\* a veterinarian as registerVet leaves it: no clinic yet
FreshVet == Vet("v9", "Normal Access", {}, NullId)

FixtureClinics == {[_id |-> "c1", primaryVetId |-> "v1"], [_id |-> "c2", primaryVetId |-> "v2"]}
FixturePets == {Pet("p1", "o1", "c1"), Pet("p2", "o2", NullId)}

NoResponse == [op |-> "", user |-> NoUser, args |-> <<>>, status |-> 0, data |-> {}]

\* ------------------------------------------------------------ appointments

Terminal == {"Canceled", "Completed"}

\* mutants of the conflict lookup: a status filter that only sees Booked
\* appointments; $in written for $nin
conflictingBookedOnly(vetId, instant) ==
  {a \in appointments : a.vetId = vetId /\ a.dateTime = instant /\ a.status = "Booked"}

conflictingTerminalOnly(vetId, instant) ==
  {a \in appointments : a.vetId = vetId /\ a.dateTime = instant /\ a.status \in Terminal}

\* Appointment.findOne({vetId, dateTime, status: {$nin: [Canceled, Completed]}})
conflicting(vetId, instant) ==
  {a \in appointments : a.vetId = vetId /\ a.dateTime = instant /\ a.status \notin Terminal}

\* bookAppointment up to its conflict lookup: the status it answers with, or 0
\* when it goes on to save.  A date that does not parse fails the query's cast
\* and lands in the catch block.
bookLookup(body) ==
  IF body.petId = NullId \/ body.clinicId = NullId \/ body.vetId = NullId
       \/ ~body.dateTime.given
    THEN 400
  ELSE IF ~Exists(pets, body.petId) THEN 404
  ELSE IF TheDoc(pets, body.petId).registeredClinicId # NullId
            /\ TheDoc(pets, body.petId).registeredClinicId # body.clinicId
    THEN 403
  ELSE IF NewDate(body.dateTime) = InvalidDate THEN 400
  ELSE IF conflicting(body.vetId, NewDate(body.dateTime)) # {} THEN 409
  ELSE IF ~Exists(owners, TheDoc(pets, body.petId).ownerId) THEN 400
  ELSE 0

\* new Appointment({...}) as bookAppointment saves it
bookDocument(body) ==
  [_id |-> NewId("a", appointments), petId |-> body.petId,
   ownerId |-> TheDoc(pets, body.petId).ownerId, clinicId |-> body.clinicId,
   vetId |-> body.vetId, dateTime |-> NewDate(body.dateTime),
   status |-> "Booked", notes |-> ""]

\* mutant of the save: a unique index on the slot rejects a second document
bookSaveUniqueSlot(doc) ==
  IF \E a \in appointments : a.vetId = doc.vetId /\ a.dateTime = doc.dateTime
    THEN appointments ELSE appointments \cup {doc}

\* appointment.save(): the schema declares three plain indexes and no unique one
bookSave(doc) == appointments \cup {doc}

BookAppointment(user, body) ==
  /\ LET s == bookLookup(body)
     IN  IF s # 0
           THEN /\ Respond("bookAppointment", user, body, s, {})
                /\ UNCHANGED appointments
           ELSE /\ Cardinality(appointments) < MaxAppointments
                /\ appointments' = bookSave(bookDocument(body))
                /\ Respond("bookAppointment", user, body, 201, {bookDocument(body)})
  /\ UNCHANGED <<owners, vets, clinics, staff, pets, records, inflight, messages, prescriptions>>

\* cancelAppointment: the caller is the pet's owner / the assigned vet
cancelIsOwner(user, a) ==
  user.role = "owner" /\ StrictEq(ToStr(Oid(TheDoc(pets, a.petId).ownerId)), user.id)

cancelIsVet(user, a) ==
  user.role = "vet" /\ StrictEq(ToStr(Oid(a.vetId)), user.id)

SetAppointment(a, status, notes) ==
  appointments' = (appointments \ {a}) \cup {[a EXCEPT !.status = status, !.notes = notes]}

CancelAppointment(user, id, reason) ==
  /\ IF ~Exists(appointments, id)
       THEN /\ Respond("cancelAppointment", user, <<id, reason>>, 404, {})
            /\ UNCHANGED appointments
     ELSE LET a == TheDoc(appointments, id)
          IN  IF ~cancelIsOwner(user, a) /\ ~cancelIsVet(user, a)
                THEN /\ Respond("cancelAppointment", user, <<id, reason>>, 403, {})
                     /\ UNCHANGED appointments
                ELSE /\ SetAppointment(a, "Canceled",
                          IF reason # "" THEN "Cancellation reason: " \o reason ELSE a.notes)
                     /\ Respond("cancelAppointment", user, <<id, reason>>, 200, {id})
  /\ UNCHANGED <<owners, vets, clinics, staff, pets, records, inflight, messages, prescriptions>>

\* confirmAppointment: only a vet caller is compared with the assigned vet
confirmDenied(user, a) ==
  user.role = "vet" /\ ~StrictEq(ToStr(Oid(a.vetId)), user.id)

ConfirmAppointment(user, id) ==
  /\ IF ~Exists(appointments, id)
       THEN /\ Respond("confirmAppointment", user, <<id>>, 404, {})
            /\ UNCHANGED appointments
     ELSE LET a == TheDoc(appointments, id)
          IN  IF confirmDenied(user, a)
                THEN /\ Respond("confirmAppointment", user, <<id>>, 403, {})
                     /\ UNCHANGED appointments
                ELSE /\ SetAppointment(a, "Confirmed", a.notes)
                     /\ Respond("confirmAppointment", user, <<id>>, 200, {id})
  /\ UNCHANGED <<owners, vets, clinics, staff, pets, records, inflight, messages, prescriptions>>

\* mutant of the owner check: any owner passes
getByIdAnyOwner(user, a) == user.role = "owner"

\* getAppointmentById: ownerId and vetId are populated before the check, so
\* the vet side compares a document's toString() with the caller's id
getByIdIsOwner(user, a) ==
  user.role = "owner" /\ StrictEq(ToStr(Oid(a.ownerId)), user.id)

getByIdIsVet(user, a) ==
  user.role = "vet" /\ StrictEq(Str("[object]"), user.id)

GetAppointmentById(user, id) ==
  /\ IF ~Exists(appointments, id)
       THEN Respond("getAppointmentById", user, <<id>>, 404, {})
     ELSE LET a == TheDoc(appointments, id)
          IN  IF Exists(owners, a.ownerId)
                THEN IF ~getByIdIsOwner(user, a) /\ ~getByIdIsVet(user, a)
                       THEN Respond("getAppointmentById", user, <<id>>, 403, {})
                       ELSE Respond("getAppointmentById", user, <<id>>, 200, {a})
                ELSE Respond("getAppointmentById", user, <<id>>, 500, {})
  /\ UNCHANGED <<owners, vets, clinics, staff, pets, appointments, records, inflight, messages, prescriptions>>

\* getAppointmentsByPet: the owner check, then Appointment.find({petId})
byPetDenied(user, pet) ==
  user.role = "owner" /\ ~StrictEq(ToStr(Oid(pet.ownerId)), user.id)

GetAppointmentsByPet(user, petId) ==
  /\ IF ~Exists(pets, petId)
       THEN Respond("getAppointmentsByPet", user, <<petId>>, 404, {})
     ELSE IF byPetDenied(user, TheDoc(pets, petId))
       THEN Respond("getAppointmentsByPet", user, <<petId>>, 403, {})
     ELSE Respond("getAppointmentsByPet", user, <<petId>>, 200,
                  {a \in appointments : a.petId = petId})
  /\ UNCHANGED <<owners, vets, clinics, staff, pets, appointments, records, inflight, messages, prescriptions>>

\* the request bodies and ids the appointment handlers are driven with
DateTexts ==
  {[given |-> TRUE, valid |-> TRUE, hour |-> 10, offset |-> 0],
   [given |-> TRUE, valid |-> TRUE, hour |-> 12, offset |-> 2],
   [given |-> TRUE, valid |-> TRUE, hour |-> 11, offset |-> 0],
   [given |-> TRUE, valid |-> FALSE, hour |-> 0, offset |-> 0],
   [given |-> FALSE, valid |-> FALSE, hour |-> 0, offset |-> 0]}

\* the owner principals; bookAppointment never reads req.user, so the booking
\* requests are driven with the owners' principals only
OwnerPrincipals == {u \in Principals : u.role = "owner"}

BookBodies ==
  [petId : {"p1", "p9"}, clinicId : {"c1", "c2"}, vetId : {"v1", "v2"},
   dateTime : DateTexts]

AppointmentIds == {"a" \o ToString(i) : i \in 1..(MaxAppointments + 1)}

InitAppointments ==
  /\ owners = FixtureOwners
  /\ vets = {v \in FixtureVets : v._id \in {"v1", "v2"}}
  /\ clinics = FixtureClinics
  /\ staff = {}
  /\ pets = {p \in FixturePets : p._id = "p1"}
  /\ appointments = {}
  /\ records = {}
  /\ inflight = <<>>
  /\ messages = {}
  /\ prescriptions = {}
  /\ response = NoResponse

BookStep == \E u \in OwnerPrincipals, b \in BookBodies : BookAppointment(u, b)
CancelStep ==
  \E u \in Principals, id \in AppointmentIds, r \in {"", "sick"} : CancelAppointment(u, id, r)
ConfirmStep == \E u \in Principals, id \in AppointmentIds : ConfirmAppointment(u, id)
GetByIdStep == \E u \in Principals, id \in AppointmentIds : GetAppointmentById(u, id)
GetByPetStep == \E u \in Principals, p \in {"p1", "p9"} : GetAppointmentsByPet(u, p)

NextAppointments == BookStep \/ CancelStep \/ ConfirmStep \/ GetByIdStep \/ GetByPetStep

\* requests served one after another
SpecAppointments == InitAppointments /\ [][NextAppointments]_vars

\* ------------------------------------------------ concurrent bookAppointment
\* Two requests in flight.  Each awaits its conflict lookup, then its save;
\* the event loop may run the other request's lookup in between.

Requests == {"r1", "r2"}

Idle(status) == [pc |-> "idle", body |-> <<>>, status |-> status]

Saving(r) == inflight[r].pc = "saving"

BookLookupStep(r, user, body) ==
  /\ inflight[r].pc = "idle"
  /\ LET s == bookLookup(body)
     IN  IF s # 0
           THEN /\ inflight' = [inflight EXCEPT ![r] = Idle(s)]
                /\ Respond("bookAppointment", user, body, s, {})
           ELSE /\ Cardinality(appointments) + Cardinality({q \in Requests : Saving(q)})
                     < MaxAppointments
                /\ inflight' = [inflight EXCEPT ![r] = [pc |-> "saving", body |-> body,
                                                         status |-> 0]]
                /\ UNCHANGED response
  /\ UNCHANGED <<owners, vets, clinics, staff, pets, appointments, records, messages, prescriptions>>

BookSaveStep(r, user) ==
  /\ Saving(r)
  /\ appointments' = bookSave(bookDocument(inflight[r].body))
  /\ inflight' = [inflight EXCEPT ![r] = Idle(201)]
  /\ Respond("bookAppointment", user, inflight[r].body, 201, {bookDocument(inflight[r].body)})
  /\ UNCHANGED <<owners, vets, clinics, staff, pets, records, messages, prescriptions>>

InitRace ==
  /\ owners = FixtureOwners
  /\ vets = {v \in FixtureVets : v._id \in {"v1", "v2"}}
  /\ clinics = FixtureClinics
  /\ staff = {}
  /\ pets = {p \in FixturePets : p._id = "p1"}
  /\ appointments = {}
  /\ records = {}
  /\ inflight = [r \in Requests |-> Idle(0)]
  /\ messages = {}
  /\ prescriptions = {}
  /\ response = NoResponse

\* the racing requests book the registered pet at its clinic
RaceBodies == {b \in BookBodies : b.petId = "p1" /\ b.clinicId = "c1"}

RaceLookup ==
  \E r \in Requests, u \in OwnerPrincipals, b \in RaceBodies : BookLookupStep(r, u, b)

RaceSave == \E r \in Requests, u \in OwnerPrincipals : BookSaveStep(r, u)

NextRace == RaceLookup \/ RaceSave

\* requests interleaved at their awaits
SpecRace == InitRace /\ [][NextRace]_vars

\* -------------------------------------------------------------------- pets
\* petProfileRoutes: protect, authorize('owner') in front of createPet,
\* updatePet, deletePet and requestClinicRegistration; protect,
\* authorize('vet') in front of approve and reject.

SetPet(p, q) == pets' = (pets \ {p}) \cup {q}

\* createPet: body is [name, clinicId, ownerId]; a missing name or species is ""
CreatePet(user, body) ==
  /\ LET gate == authorize({"owner"}, user)
         ownerId == IF body.ownerId # NullId THEN body.ownerId ELSE user.id[2]
         pet == [Pet(NewId("p", pets), ownerId, body.clinicId) EXCEPT !.name = body.name]
     IN  IF gate # 200
           THEN Respond("createPet", user, <<body>>, gate, {}) /\ UNCHANGED pets
         ELSE IF body.name = ""
           THEN Respond("createPet", user, <<body>>, 400, {}) /\ UNCHANGED pets
         ELSE IF body.clinicId # NullId /\ ~Exists(clinics, body.clinicId)
           THEN Respond("createPet", user, <<body>>, 400, {}) /\ UNCHANGED pets
         ELSE IF ~Exists(owners, ownerId)
           THEN Respond("createPet", user, <<body>>, 404, {}) /\ UNCHANGED pets
         ELSE /\ Cardinality(pets) < MaxPets
              /\ pets' = pets \cup {pet}
              /\ Respond("createPet", user, <<body>>, 201, {pet})
  /\ UNCHANGED <<owners, vets, clinics, staff, appointments, records, inflight, messages, prescriptions>>

\* updatePet: updates is [ownerId, registrationStatus, registeredClinicId, name];
\* a field the body leaves out is ""
UpdatePet(user, id, updates) ==
  /\ LET gate == authorize({"owner"}, user)
     IN  IF gate # 200
           THEN Respond("updatePet", user, <<id, updates>>, gate, {}) /\ UNCHANGED pets
         ELSE IF updates.ownerId # NullId
           THEN Respond("updatePet", user, <<id, updates>>, 403, {}) /\ UNCHANGED pets
         ELSE IF updates.registrationStatus # "" \/ updates.registeredClinicId # NullId
           THEN Respond("updatePet", user, <<id, updates>>, 403, {}) /\ UNCHANGED pets
         ELSE IF ~Exists(pets, id)
           THEN Respond("updatePet", user, <<id, updates>>, 404, {}) /\ UNCHANGED pets
         ELSE LET p == TheDoc(pets, id)
                  q == IF updates.name # "" THEN [p EXCEPT !.name = updates.name] ELSE p
              IN  SetPet(p, q) /\ Respond("updatePet", user, <<id, updates>>, 200, {q})
  /\ UNCHANGED <<owners, vets, clinics, staff, appointments, records, inflight, messages, prescriptions>>

\* deletePet: a soft delete
DeletePet(user, id) ==
  /\ LET gate == authorize({"owner"}, user)
     IN  IF gate # 200
           THEN Respond("deletePet", user, <<id>>, gate, {}) /\ UNCHANGED pets
         ELSE IF ~Exists(pets, id)
           THEN Respond("deletePet", user, <<id>>, 404, {}) /\ UNCHANGED pets
         ELSE LET p == TheDoc(pets, id)
                  q == [p EXCEPT !.isDeleted = TRUE]
              IN  SetPet(p, q) /\ Respond("deletePet", user, <<id>>, 200, {q})
  /\ UNCHANGED <<owners, vets, clinics, staff, appointments, records, inflight, messages, prescriptions>>

\* requestClinicRegistration: the pet document after the handler
requestedPet(p, clinicId) ==
  IF p.registrationStatus # "Pending"
    THEN [p EXCEPT !.registrationStatus = "Pending", !.registeredClinicId = clinicId]
    ELSE p

RequestClinicRegistration(user, id, clinicId) ==
  /\ LET gate == authorize({"owner"}, user)
     IN  IF gate # 200
           THEN Respond("requestClinicRegistration", user, <<id, clinicId>>, gate, {})
                /\ UNCHANGED pets
         ELSE IF clinicId = NullId
           THEN Respond("requestClinicRegistration", user, <<id, clinicId>>, 400, {})
                /\ UNCHANGED pets
         ELSE IF ~Exists(pets, id) \/ ~Exists(clinics, clinicId)
           THEN Respond("requestClinicRegistration", user, <<id, clinicId>>, 404, {})
                /\ UNCHANGED pets
         ELSE LET p == TheDoc(pets, id)
              IN  /\ SetPet(p, requestedPet(p, clinicId))
                  /\ Respond("requestClinicRegistration", user, <<id, clinicId>>, 200,
                             {requestedPet(p, clinicId)})
  /\ UNCHANGED <<owners, vets, clinics, staff, appointments, records, inflight, messages, prescriptions>>

\* approve / reject: the clinic of the veterinarian with the caller's email
vetClinicId(user) ==
  LET v == CHOOSE v \in vets : v.email = user.email
  IN  IF v.currentActiveClinicId # NullId THEN v.currentActiveClinicId ELSE v.clinicId

\* mutant of the registration lookup: the clinic is left out of the filter
pendingAtAnyClinic(id, clinicId) ==
  {p \in pets : p._id = id /\ p.registrationStatus = "Pending"}

\* PetProfile.findOne({_id, registeredClinicId, registrationStatus: 'Pending'})
pendingAt(id, clinicId) ==
  {p \in pets : p._id = id /\ p.registeredClinicId = clinicId
                /\ p.registrationStatus = "Pending"}

DecideRegistration(op, user, id, status) ==
  /\ LET gate == authorize({"vet"}, user)
     IN  IF gate # 200
           THEN Respond(op, user, <<id>>, gate, {}) /\ UNCHANGED pets
         ELSE IF ~\E v \in vets : v.email = user.email
           THEN Respond(op, user, <<id>>, 404, {}) /\ UNCHANGED pets
         ELSE IF vetClinicId(user) = NullId
           THEN Respond(op, user, <<id>>, 400, {}) /\ UNCHANGED pets
         ELSE IF pendingAt(id, vetClinicId(user)) = {}
           THEN Respond(op, user, <<id>>, 404, {}) /\ UNCHANGED pets
         ELSE LET p == CHOOSE p \in pendingAt(id, vetClinicId(user)) : TRUE
                  q == [p EXCEPT !.registrationStatus = status]
              IN  SetPet(p, q) /\ Respond(op, user, <<id>>, 200, {q})
  /\ UNCHANGED <<owners, vets, clinics, staff, appointments, records, inflight, messages, prescriptions>>

ApprovePetRegistration(user, id) ==
  DecideRegistration("approvePetRegistration", user, id, "Approved")

RejectPetRegistration(user, id) ==
  DecideRegistration("rejectPetRegistration", user, id, "Rejected")

\* the requests the pet handlers are driven with; the ids they name are
\* the first two pets and one that is never stored
PetIds == {"p1", "p2", "p9"}

PetBodies ==
  {[name |-> "pet", clinicId |-> NullId, ownerId |-> NullId],
   [name |-> "", clinicId |-> NullId, ownerId |-> NullId],
   [name |-> "pet", clinicId |-> "c9", ownerId |-> NullId],
   [name |-> "pet", clinicId |-> NullId, ownerId |-> "o9"]}

PetUpdates ==
  {[ownerId |-> NullId, registrationStatus |-> "", registeredClinicId |-> NullId, name |-> "max"],
   [ownerId |-> "o2", registrationStatus |-> "", registeredClinicId |-> NullId, name |-> "max"],
   [ownerId |-> NullId, registrationStatus |-> "Approved", registeredClinicId |-> NullId, name |-> ""],
   [ownerId |-> NullId, registrationStatus |-> "", registeredClinicId |-> "c2", name |-> ""]}

InitPets ==
  /\ owners = FixtureOwners
  /\ vets = {v \in FixtureVets : v._id = "v1"} \cup {FreshVet}
  /\ clinics = FixtureClinics
  /\ staff = {}
  /\ pets = {p \in FixturePets : p._id = "p1"}
  /\ appointments = {}
  /\ records = {}
  /\ inflight = <<>>
  /\ messages = {}
  /\ prescriptions = {}
  /\ response = NoResponse

CreatePetStep == \E u \in Principals, b \in PetBodies : CreatePet(u, b)
UpdatePetStep == \E u \in Principals, id \in PetIds, b \in PetUpdates : UpdatePet(u, id, b)
DeletePetStep == \E u \in Principals, id \in PetIds : DeletePet(u, id)
RequestStep ==
  \E u \in Principals, id \in PetIds, c \in {NullId, "c2", "c9"} :
    RequestClinicRegistration(u, id, c)
ApproveStep == \E u \in Principals, id \in PetIds : ApprovePetRegistration(u, id)
RejectStep == \E u \in Principals, id \in PetIds : RejectPetRegistration(u, id)

NextPets ==
  CreatePetStep \/ UpdatePetStep \/ DeletePetStep \/ RequestStep \/ ApproveStep \/ RejectStep

SpecPets == InitPets /\ [][NextPets]_vars

\* --------------------------------------------------------- medical records
\* A JSON value of a request body: its type and what the schema's Boolean
\* cast makes of it
Json(type, truth) == [type |-> type, truth |-> truth]
Undefined == Json("undefined", FALSE)

SetRecord(r, q) == records' = (records \ {r}) \cup {q}

\* createMedicalRecord: body is [petId, diagnosis, visibleToOwner].  A new
\* record never takes the _id of a stored one.
CreateMedicalRecord(user, body) ==
  /\ LET gate == authorize({"vet"}, user)
         visible == IF body.visibleToOwner.type = "undefined" THEN FALSE
                    ELSE body.visibleToOwner.truth
         record == [_id |-> NewId("m", records), petId |-> body.petId, vetId |-> user.id[2],
                    diagnosis |-> body.diagnosis, visibleToOwner |-> visible]
     IN  IF gate # 200
           THEN Respond("createMedicalRecord", user, <<body>>, gate, {}) /\ UNCHANGED records
         ELSE IF body.petId = NullId \/ body.diagnosis = ""
           THEN Respond("createMedicalRecord", user, <<body>>, 400, {}) /\ UNCHANGED records
         ELSE IF ~Exists(pets, body.petId)
           THEN Respond("createMedicalRecord", user, <<body>>, 404, {}) /\ UNCHANGED records
         ELSE /\ Cardinality(records) < MaxRecords
              /\ ~Exists(records, record._id)
              /\ records' = records \cup {record}
              /\ Respond("createMedicalRecord", user, <<body>>, 201, {record})
  /\ UNCHANGED <<owners, vets, clinics, staff, pets, appointments, inflight, messages, prescriptions>>

\* DELETE /medical-records/:id behind protect, authorize('vet'):
\* MedicalRecord.findByIdAndDelete
DeleteMedicalRecord(user, id) ==
  /\ LET gate == authorize({"vet"}, user)
     IN  IF gate # 200
           THEN Respond("deleteMedicalRecord", user, <<id>>, gate, {}) /\ UNCHANGED records
         ELSE IF ~Exists(records, id)
           THEN Respond("deleteMedicalRecord", user, <<id>>, 404, {}) /\ UNCHANGED records
         ELSE /\ records' = records \ {TheDoc(records, id)}
              /\ Respond("deleteMedicalRecord", user, <<id>>, 200, {})
  /\ UNCHANGED <<owners, vets, clinics, staff, pets, appointments, inflight, messages, prescriptions>>

\* mutant of the listing query: the ownerView flag is not applied
recordsQueryUnfiltered(petId, ownerView) == {r \in records : r.petId = petId}

\* getRecordsByPet's query: {petId, visibleToOwner: true when ownerView === 'true'}
recordsQuery(petId, ownerView) ==
  {r \in records : r.petId = petId /\ (ownerView = "true" => r.visibleToOwner)}

\* mutant of the ownership test: the ids are compared as strings
authorizePetOwnerByText(user, petId) ==
  IF ~Exists(pets, petId) THEN 404
  ELSE IF TheDoc(pets, petId).ownerId # user.id[2] THEN 403
  ELSE 200

\* authorizePetOwner of the medical-record and prescription routes
authorizePetOwner(user, petId) ==
  IF ~Exists(pets, petId) THEN 404
  ELSE IF ~StrictEq(ToStr(Oid(TheDoc(pets, petId).ownerId)), user.id) THEN 403
  ELSE 200

\* GET /medical-records/pet/:petId : an owner passes authorizePetOwner and is
\* given ownerView = 'true'; a vet keeps the query string's ownerView
GetRecordsByPet(user, petId, ownerView) ==
  /\ LET gate == IF user.role = "owner" THEN authorizePetOwner(user, petId)
                 ELSE IF user.role = "vet" THEN 200 ELSE 403
         view == IF user.role = "owner" THEN "true" ELSE ownerView
     IN  IF gate # 200
           THEN Respond("getRecordsByPet", user, <<petId, view>>, gate, {})
         ELSE IF ~Exists(pets, petId)
           THEN Respond("getRecordsByPet", user, <<petId, view>>, 404, {})
         ELSE Respond("getRecordsByPet", user, <<petId, view>>, 200, recordsQuery(petId, view))
  /\ UNCHANGED <<owners, vets, clinics, staff, pets, appointments, records, inflight, messages, prescriptions>>

\* getRecordById's only access check
hiddenFromCaller(user, r) == ~r.visibleToOwner /\ user.role = "owner"

GetRecordById(user, id) ==
  /\ IF ~Exists(records, id)
       THEN Respond("getRecordById", user, <<id>>, 404, {})
     ELSE IF hiddenFromCaller(user, TheDoc(records, id))
       THEN Respond("getRecordById", user, <<id>>, 403, {})
     ELSE Respond("getRecordById", user, <<id>>, 200, {TheDoc(records, id)})
  /\ UNCHANGED <<owners, vets, clinics, staff, pets, appointments, records, inflight, messages, prescriptions>>

\* updateMedicalRecord: updates is [petId, diagnosis, visibleToOwner]
UpdateMedicalRecord(user, id, updates) ==
  /\ LET gate == authorize({"vet"}, user)
     IN  IF gate # 200
           THEN Respond("updateMedicalRecord", user, <<id, updates>>, gate, {})
                /\ UNCHANGED records
         ELSE IF updates.petId # NullId
           THEN Respond("updateMedicalRecord", user, <<id, updates>>, 400, {})
                /\ UNCHANGED records
         ELSE IF ~Exists(records, id)
           THEN Respond("updateMedicalRecord", user, <<id, updates>>, 404, {})
                /\ UNCHANGED records
         ELSE LET r == TheDoc(records, id)
                  q == [r EXCEPT
                          !.diagnosis = IF updates.diagnosis # "" THEN updates.diagnosis ELSE @,
                          !.visibleToOwner = IF updates.visibleToOwner.type # "undefined"
                                               THEN updates.visibleToOwner.truth ELSE @]
              IN  SetRecord(r, q) /\ Respond("updateMedicalRecord", user, <<id, updates>>, 200, {q})
  /\ UNCHANGED <<owners, vets, clinics, staff, pets, appointments, inflight, messages, prescriptions>>

\* toggleVisibility: body is [visibleToOwner]
ToggleVisibility(user, id, value) ==
  /\ LET gate == authorize({"vet"}, user)
     IN  IF gate # 200
           THEN Respond("toggleVisibility", user, <<id, value>>, gate, {}) /\ UNCHANGED records
         ELSE IF value.type # "boolean"
           THEN Respond("toggleVisibility", user, <<id, value>>, 400, {}) /\ UNCHANGED records
         ELSE IF ~Exists(records, id)
           THEN Respond("toggleVisibility", user, <<id, value>>, 404, {}) /\ UNCHANGED records
         ELSE LET r == TheDoc(records, id)
                  q == [r EXCEPT !.visibleToOwner = value.truth]
              IN  SetRecord(r, q) /\ Respond("toggleVisibility", user, <<id, value>>, 200, {q})
  /\ UNCHANGED <<owners, vets, clinics, staff, pets, appointments, inflight, messages, prescriptions>>

\* the requests the medical-record handlers are driven with; the ids they
\* name are the first two records and one that is never stored
RecordIds == {"m1", "m2", "m9"}

Visibilities == {Undefined, Json("boolean", TRUE), Json("boolean", FALSE), Json("string", TRUE)}

RecordBodies ==
  {[petId |-> "p1", diagnosis |-> "flu", visibleToOwner |-> Undefined],
   [petId |-> "p1", diagnosis |-> "flu", visibleToOwner |-> Json("boolean", TRUE)],
   [petId |-> "p2", diagnosis |-> "flu", visibleToOwner |-> Json("boolean", FALSE)],
   [petId |-> "p2", diagnosis |-> "flu", visibleToOwner |-> Json("string", TRUE)],
   [petId |-> "p9", diagnosis |-> "flu", visibleToOwner |-> Undefined],
   [petId |-> "p1", diagnosis |-> "", visibleToOwner |-> Undefined]}

RecordUpdates ==
  {[petId |-> NullId, diagnosis |-> "", visibleToOwner |-> v] : v \in Visibilities}
  \cup {[petId |-> NullId, diagnosis |-> "cold", visibleToOwner |-> Undefined],
        [petId |-> "p2", diagnosis |-> "", visibleToOwner |-> Json("boolean", TRUE)]}

InitRecords ==
  /\ owners = FixtureOwners
  /\ vets = {v \in FixtureVets : v._id = "v1"}
  /\ clinics = FixtureClinics
  /\ staff = {}
  /\ pets = FixturePets
  /\ appointments = {}
  /\ records = {}
  /\ inflight = <<>>
  /\ messages = {}
  /\ prescriptions = {}
  /\ response = NoResponse

CreateRecordStep == \E u \in Principals, b \in RecordBodies : CreateMedicalRecord(u, b)
UpdateRecordStep ==
  \E u \in Principals, id \in RecordIds, b \in RecordUpdates : UpdateMedicalRecord(u, id, b)
ToggleStep ==
  \E u \in Principals, id \in RecordIds, v \in Visibilities : ToggleVisibility(u, id, v)
ListRecordsStep ==
  \E u \in Principals, pid \in {"p1", "p2", "p9"}, view \in {"", "true"} :
    GetRecordsByPet(u, pid, view)
GetRecordStep == \E u \in Principals, id \in RecordIds : GetRecordById(u, id)

NextRecords ==
  \/ CreateRecordStep
  \/ UpdateRecordStep
  \/ ToggleStep
  \/ ListRecordsStep
  \/ GetRecordStep
  \/ \E u \in Principals, id \in RecordIds : DeleteMedicalRecord(u, id)

SpecRecords == InitRecords /\ [][NextRecords]_vars

\* ------------------------------------------- prescriptions and summaries
\* A prescription is [_id, petId, medicalRecordId, createdBy]; populate puts
\* the selected fields of the linked record, or nothing, in place of its id.

\* createPrescription behind protect, authorize('vet'); body is
\* [petId, medicalRecordId], the other required fields being present
CreatePrescription(user, body) ==
  /\ LET gate == authorize({"vet"}, user)
         prescription == [_id |-> NewId("x", prescriptions), petId |-> body.petId,
                          medicalRecordId |-> body.medicalRecordId,
                          createdBy |-> user.id[2]]
     IN  IF gate # 200
           THEN Respond("createPrescription", user, <<body>>, gate, {})
                /\ UNCHANGED prescriptions
         ELSE IF body.petId = NullId
           THEN Respond("createPrescription", user, <<body>>, 400, {})
                /\ UNCHANGED prescriptions
         ELSE IF ~Exists(pets, body.petId)
           THEN Respond("createPrescription", user, <<body>>, 404, {})
                /\ UNCHANGED prescriptions
         ELSE IF /\ body.medicalRecordId # NullId
                 /\ ~\E r \in records : r._id = body.medicalRecordId /\ r.petId = body.petId
           THEN Respond("createPrescription", user, <<body>>, 404, {})
                /\ UNCHANGED prescriptions
         ELSE /\ Cardinality(prescriptions) < MaxPrescriptions
              /\ prescriptions' = prescriptions \cup {prescription}
              /\ Respond("createPrescription", user, <<body>>, 201, {prescription})
  /\ UNCHANGED <<owners, vets, clinics, staff, pets, appointments, records, inflight,
                 messages>>

\* GET /prescriptions/pet/:petId behind protect: an owner passes
\* authorizePetOwner, a vet goes straight to getPrescriptionsByPet, which
\* populates medicalRecordId with 'date diagnosis visibleToOwner'
GetPrescriptionsByPet(user, petId) ==
  /\ LET gate == IF user.role = "owner" THEN authorizePetOwner(user, petId)
                 ELSE IF user.role = "vet" THEN 200 ELSE 403
         populate(x) ==
           [x EXCEPT !.medicalRecordId =
              {[_id |-> r._id, diagnosis |-> r.diagnosis,
                visibleToOwner |-> r.visibleToOwner] : r \in FindById(records, @)}]
     IN  IF gate # 200
           THEN Respond("getPrescriptionsByPet", user, <<petId>>, gate, {})
         ELSE IF ~Exists(pets, petId)
           THEN Respond("getPrescriptionsByPet", user, <<petId>>, 404, {})
         ELSE Respond("getPrescriptionsByPet", user, <<petId>>, 200,
                      {populate(x) : x \in {x \in prescriptions : x.petId = petId}})
  /\ UNCHANGED <<owners, vets, clinics, staff, pets, appointments, records, inflight,
                 messages, prescriptions>>

\* GET /medical-records/summary/pet/:petId behind protect: an owner passes
\* authorizePetOwner, anyone else goes straight to getMedicalSummaryByPet.
\* latestVisit is the record with the latest date; updateMedicalRecord stores
\* whatever date its body carries, so any record of the pet can be the one.
GetMedicalSummaryByPet(user, petId) ==
  /\ LET gate == IF user.role = "owner" THEN authorizePetOwner(user, petId) ELSE 200
         ofPet == {r \in records : r.petId = petId}
         summary(latest) ==
           [totalRecords |-> Cardinality(ofPet),
            visibleToOwner |-> Cardinality({r \in ofPet : r.visibleToOwner}),
            latestVisit |-> latest]
     IN  IF gate # 200
           THEN Respond("getMedicalSummaryByPet", user, <<petId>>, gate, {})
         ELSE IF ofPet = {}
           THEN Respond("getMedicalSummaryByPet", user, <<petId>>, 200, {summary({})})
         ELSE \E r \in ofPet :
                Respond("getMedicalSummaryByPet", user, <<petId>>, 200,
                        {summary({[_id |-> r._id, diagnosis |-> r.diagnosis,
                                   vetId |-> r.vetId]})})
  /\ UNCHANGED <<owners, vets, clinics, staff, pets, appointments, records, inflight,
                 messages, prescriptions>>

InitPrescriptions ==
  /\ owners = FixtureOwners
  /\ vets = {v \in FixtureVets : v._id = "v1"}
  /\ clinics = FixtureClinics
  /\ staff = {}
  /\ pets = FixturePets
  /\ appointments = {}
  /\ records = {}
  /\ inflight = <<>>
  /\ messages = {}
  /\ prescriptions = {}
  /\ response = NoResponse

NextPrescriptions ==
  \/ \E u \in Principals,
        b \in {[petId |-> "p1", diagnosis |-> d, visibleToOwner |-> Json("boolean", v)] :
                 d \in {"flu", "cold"}, v \in BOOLEAN} : CreateMedicalRecord(u, b)
  \/ \E u \in Principals, id \in {"m1", "m2"}, v \in BOOLEAN :
       ToggleVisibility(u, id, Json("boolean", v))
  \/ \E u \in Principals, id \in {"m1", "m2"} : DeleteMedicalRecord(u, id)
  \/ \E u \in Principals, id \in {"m1", "m2", "m9"} : GetRecordById(u, id)
  \/ \E u \in Principals, pid \in {"p1", "p2"} : GetRecordsByPet(u, pid, "")
  \/ \E u \in Principals, pid \in {"p1", "p2"} : GetMedicalSummaryByPet(u, pid)
  \/ \E u \in Principals, b \in [petId : {"p1"}, medicalRecordId : {NullId, "m1"}] :
       CreatePrescription(u, b)
  \/ \E u \in Principals, pid \in {"p1", "p2"} : GetPrescriptionsByPet(u, pid)

SpecPrescriptions == InitPrescriptions /\ [][NextPrescriptions]_vars

\* ------------------------------------------------------ clinics and staff

\* mutant of the Primary check: only a missing account is refused
notPrimaryAccountOnly(id) == ~Exists(vets, id)

\* !vet || vet.accessLevel !== 'Primary' on Veterinarian.findById(req.user.id)
notPrimary(id) == ~Exists(vets, id) \/ TheDoc(vets, id).accessLevel # "Primary"

\* createClinic behind protect, authorize('vet'); a missing name, address or
\* phone number is name "".  A new clinic never takes the _id of a stored one.
CreateClinic(user, body) ==
  /\ LET gate == authorize({"vet"}, user)
         clinic == [_id |-> NewId("c", clinics), primaryVetId |-> user.id[2]]
     IN  IF gate # 200
           THEN Respond("createClinic", user, <<body>>, gate, {}) /\ UNCHANGED <<clinics, vets>>
         ELSE IF user.role # "vet" \/ notPrimary(user.id[2])
           THEN Respond("createClinic", user, <<body>>, 403, {}) /\ UNCHANGED <<clinics, vets>>
         ELSE IF body.name = ""
           THEN Respond("createClinic", user, <<body>>, 400, {}) /\ UNCHANGED <<clinics, vets>>
         ELSE LET v == TheDoc(vets, user.id[2])
                  owned == v.ownedClinics \cup {clinic._id}
                  w == [v EXCEPT !.ownedClinics = owned,
                                 !.currentActiveClinicId =
                                    IF Cardinality(owned) = 1 THEN clinic._id ELSE @]
              IN  /\ Cardinality(clinics) < MaxClinics
                  /\ ~Exists(clinics, clinic._id)
                  /\ clinics' = clinics \cup {clinic}
                  /\ vets' = (vets \ {v}) \cup {w}
                  /\ Respond("createClinic", user, <<body>>, 201, {clinic})
  /\ UNCHANGED <<owners, staff, pets, appointments, records, inflight, messages, prescriptions>>

\* the enum validators save() runs on a modified status
VetStatuses == {"Active", "Deactivated"}
StaffStatuses == {"Active", "Inactive", "Deleted"}

\* deleteVet behind protect, authorizeVetAccess('Primary').  The handler's
\* own-account test compares req.params.id with the caller's ObjectId, and
\* createdByVetId is not a path of the schema.
DeleteVet(user, id) ==
  /\ LET gate == authorizeVetAccess({"Primary"}, user)
     IN  IF gate # 200
           THEN Respond("deleteVet", user, <<id>>, gate, {}) /\ UNCHANGED vets
         ELSE IF notPrimary(user.id[2])
           THEN Respond("deleteVet", user, <<id>>, 403, {}) /\ UNCHANGED vets
         ELSE IF StrictEq(Str(id), user.id)
           THEN Respond("deleteVet", user, <<id>>, 400, {}) /\ UNCHANGED vets
         ELSE IF ~Exists(vets, id)
           THEN Respond("deleteVet", user, <<id>>, 404, {}) /\ UNCHANGED vets
         ELSE LET me == TheDoc(vets, user.id[2])
                  v == TheDoc(vets, id)
                  hasPermission == v.currentActiveClinicId # NullId
                                   /\ v.currentActiveClinicId \in me.ownedClinics
              IN  IF ~hasPermission \/ v.accessLevel = "Primary"
                    THEN Respond("deleteVet", user, <<id>>, 403, {}) /\ UNCHANGED vets
                  ELSE IF "Deleted" \notin VetStatuses
                    THEN Respond("deleteVet", user, <<id>>, 500, {}) /\ UNCHANGED vets
                  ELSE /\ vets' = (vets \ {v}) \cup {[v EXCEPT !.status = "Deleted"]}
                       /\ Respond("deleteVet", user, <<id>>, 200, {id})
  /\ UNCHANGED <<owners, clinics, staff, pets, appointments, records, inflight, messages, prescriptions>>

\* deleteClinicStaff behind protect, authorizeVetAccess('Primary')
DeleteClinicStaff(user, id) ==
  /\ LET gate == authorizeVetAccess({"Primary"}, user)
     IN  IF gate # 200
           THEN Respond("deleteClinicStaff", user, <<id>>, gate, {}) /\ UNCHANGED staff
         ELSE IF notPrimary(user.id[2])
           THEN Respond("deleteClinicStaff", user, <<id>>, 403, {}) /\ UNCHANGED staff
         ELSE IF ~Exists(staff, id)
           THEN Respond("deleteClinicStaff", user, <<id>>, 404, {}) /\ UNCHANGED staff
         ELSE LET me == TheDoc(vets, user.id[2])
                  m == TheDoc(staff, id)
              IN  IF m.clinicId \notin me.ownedClinics /\ m.createdBy # user.id[2]
                    THEN Respond("deleteClinicStaff", user, <<id>>, 403, {}) /\ UNCHANGED staff
                  ELSE IF "Deleted" \notin StaffStatuses
                    THEN Respond("deleteClinicStaff", user, <<id>>, 500, {}) /\ UNCHANGED staff
                  ELSE /\ staff' = (staff \ {m}) \cup {[m EXCEPT !.status = "Deleted"]}
                       /\ Respond("deleteClinicStaff", user, <<id>>, 200, {id})
  /\ UNCHANGED <<owners, vets, clinics, pets, appointments, records, inflight, messages, prescriptions>>

\* addClinicStaff's clinic check: for a Primary creator the flag is assigned
\* the ownedClinics array itself, and an array is truthy even when empty
hasAccessToClinic(creator, clinicId) ==
  IF creator.accessLevel = "Primary" THEN TRUE
  ELSE IF creator.accessLevel = "Full Access"
    THEN creator.currentActiveClinicId # NullId /\ creator.currentActiveClinicId = clinicId
  ELSE FALSE

StaffRoles == {"Receptionist", "Vet Tech", "Assistant", "Manager", "Kennel Staff"}
AccessLevels == {"Primary", "Full Access", "Normal Access"}
nonVetStaffTypes == {"receptionist", "vettech", "manager", "assistant", "kennelstaff"}

\* addClinicStaff up to its writes: the status it answers with, or 0 when it
\* goes on to create.  body is [staffType, email, phoneNumber, veterinaryId,
\* accessLevel, role, clinicId, password]; staffType "" stands for any
\* missing name, email or password.
staffLookup(user, body) ==
  IF user.role # "vet" THEN 403
  ELSE IF ~Exists(vets, user.id[2]) THEN 404
  ELSE IF TheDoc(vets, user.id[2]).accessLevel \notin {"Primary", "Full Access"} THEN 403
  ELSE IF body.clinicId = NullId THEN 400
  ELSE IF ~hasAccessToClinic(TheDoc(vets, user.id[2]), body.clinicId) THEN 403
  ELSE IF ~Exists(clinics, body.clinicId) THEN 404
  ELSE IF body.staffType = "" \/ body.email = "" THEN 400
  ELSE IF body.staffType = "veterinarian"
    THEN IF body.veterinaryId = "" THEN 400
         ELSE IF body.accessLevel = "Primary" THEN 403
         ELSE IF \E v \in vets : v.email = body.email \/ v.veterinaryId = body.veterinaryId
           THEN 409
         ELSE IF body.phoneNumber = "" \/ body.accessLevel \notin AccessLevels THEN 500
         ELSE 0
  ELSE IF body.staffType \in nonVetStaffTypes
    THEN IF body.role = "" THEN 400
         ELSE IF \E m \in staff : m.email = body.email THEN 409
         ELSE IF body.role \notin StaffRoles THEN 500
         ELSE 0
  ELSE 400

\* new Veterinarian({...}) and new ClinicStaff({...}) as addClinicStaff saves them
staffVet(body) ==
  [_id |-> NewId("v", vets), email |-> body.email, veterinaryId |-> body.veterinaryId,
   accessLevel |-> body.accessLevel, ownedClinics |-> {}, clinicId |-> NullId,
   currentActiveClinicId |-> body.clinicId, status |-> "Active",
   passwordHash |-> bcryptHash(body.password)]

staffMember(user, body) ==
  [_id |-> NewId("s", staff), clinicId |-> body.clinicId, email |-> body.email,
   role |-> body.role, createdBy |-> user.id[2], status |-> "Active",
   passwordHash |-> bcryptHash(body.password)]

\* POST /clinics/staff behind protect, authorize('vet'),
\* authorizeVetAccess('Primary', 'Full Access')
AddClinicStaff(user, body) ==
  /\ LET gate == IF authorize({"vet"}, user) # 200 THEN authorize({"vet"}, user)
                 ELSE authorizeVetAccess({"Primary", "Full Access"}, user)
         s == IF gate # 200 THEN gate ELSE staffLookup(user, body)
     IN  IF s # 0
           THEN Respond("addClinicStaff", user, <<body>>, s, {}) /\ UNCHANGED <<vets, staff>>
         ELSE IF body.staffType = "veterinarian"
           THEN /\ Cardinality(vets) < MaxVets
                /\ vets' = vets \cup {staffVet(body)}
                /\ UNCHANGED staff
                /\ Respond("addClinicStaff", user, <<body>>, 201,
                           {withoutPasswordHash(staffVet(body))})
         ELSE /\ Cardinality(staff) < MaxStaff
              /\ staff' = staff \cup {staffMember(user, body)}
              /\ UNCHANGED vets
              /\ Respond("addClinicStaff", user, <<body>>, 201,
                         {withoutPasswordHash(staffMember(user, body))})
  /\ UNCHANGED <<owners, clinics, pets, appointments, records, inflight, messages, prescriptions>>

\* PUT /clinics/staff/:id behind protect, authorize('vet'),
\* authorizeVetAccess('Primary', 'Full Access'); updates is [role, passwordHash],
\* "" for a field the body does not carry.  The answer carries the document
\* findByIdAndUpdate returns.
UpdateClinicStaff(user, id, updates) ==
  /\ LET gate == IF authorize({"vet"}, user) # 200 THEN authorize({"vet"}, user)
                 ELSE authorizeVetAccess({"Primary", "Full Access"}, user)
         me == TheDoc(vets, user.id[2])
     IN  IF gate # 200
           THEN Respond("updateClinicStaff", user, <<id, updates>>, gate, {}) /\ UNCHANGED staff
         ELSE IF ~Exists(staff, id)
           THEN Respond("updateClinicStaff", user, <<id, updates>>, 404, {}) /\ UNCHANGED staff
         ELSE IF ~(\/ /\ me.accessLevel = "Primary"
                      /\ TheDoc(staff, id).clinicId \in me.ownedClinics
                   \/ /\ me.accessLevel = "Full Access"
                      /\ me.currentActiveClinicId # NullId
                      /\ me.currentActiveClinicId = TheDoc(staff, id).clinicId)
           THEN Respond("updateClinicStaff", user, <<id, updates>>, 403, {}) /\ UNCHANGED staff
         ELSE IF updates.passwordHash # ""
           THEN Respond("updateClinicStaff", user, <<id, updates>>, 403, {}) /\ UNCHANGED staff
         ELSE IF updates.role # "" /\ updates.role \notin StaffRoles
           THEN Respond("updateClinicStaff", user, <<id, updates>>, 500, {}) /\ UNCHANGED staff
         ELSE LET updatedStaff == IF updates.role = "" THEN TheDoc(staff, id)
                                  ELSE [TheDoc(staff, id) EXCEPT !.role = updates.role]
              IN  /\ staff' = (staff \ {TheDoc(staff, id)}) \cup {updatedStaff}
                  /\ Respond("updateClinicStaff", user, <<id, updates>>, 200, {updatedStaff})
  /\ UNCHANGED <<owners, vets, clinics, pets, appointments, records, inflight, messages, prescriptions>>

StaffUpdates == {[role |-> "Receptionist", passwordHash |-> ""],
                 [role |-> "Janitor", passwordHash |-> ""],
                 [role |-> "", passwordHash |-> "$2a$12$chosen"]}

\* the requests the clinic handlers are driven with
VetIds == {"v" \o ToString(i) : i \in 1..(MaxVets + 1)}
StaffIds == {"s" \o ToString(i) : i \in 1..(MaxStaff + 1)}

StaffBody(type, email, phone, lic, level, role, clinicId) ==
  [staffType |-> type, email |-> email, phoneNumber |-> phone, veterinaryId |-> lic,
   accessLevel |-> level, role |-> role, clinicId |-> clinicId,
   password |-> IF type = "" THEN "" ELSE "pw-staff"]

StaffBodies ==
  {StaffBody("receptionist", "r1@pawpal.test", "", "", "Normal Access", "Receptionist", c) :
     c \in {NullId, "c1", "c2", "c9"}}
  \cup {StaffBody("veterinarian", "v4@pawpal.test", "555", "lic-v4", a, "", c) :
          a \in {"Full Access", "Primary"}, c \in {"c1", "c2"}}
  \cup {StaffBody("veterinarian", "v5@pawpal.test", "555", "lic-v3", "Normal Access", "", "c1"),
        StaffBody("veterinarian", "v5@pawpal.test", "", "lic-v5", "Normal Access", "", "c1"),
        StaffBody("veterinarian", "v5@pawpal.test", "555", "", "Normal Access", "", "c1"),
        StaffBody("manager", "m1@pawpal.test", "", "", "Normal Access", "", "c1"),
        StaffBody("janitor", "j1@pawpal.test", "", "", "Normal Access", "Janitor", "c1"),
        StaffBody("", "", "", "", "Normal Access", "", "c1")}

InitClinics ==
  /\ owners = {o \in FixtureOwners : o._id = "o1"}
  /\ vets = FixtureVets
  /\ clinics = FixtureClinics
  /\ staff = {}
  /\ pets = {}
  /\ appointments = {}
  /\ records = {}
  /\ inflight = <<>>
  /\ messages = {}
  /\ prescriptions = {}
  /\ response = NoResponse

CreateClinicStep ==
  \E u \in Principals, b \in {[name |-> ""], [name |-> "clinic"]} : CreateClinic(u, b)
DeleteVetStep == \E u \in Principals, id \in VetIds : DeleteVet(u, id)
DeleteStaffStep == \E u \in Principals, id \in StaffIds : DeleteClinicStaff(u, id)
AddStaffStep == \E u \in Principals, b \in StaffBodies : AddClinicStaff(u, b)

NextClinics ==
  \/ CreateClinicStep
  \/ DeleteVetStep
  \/ DeleteStaffStep
  \/ AddStaffStep
  \/ \E u \in Principals, id \in StaffIds, b \in StaffUpdates : UpdateClinicStaff(u, id, b)

SpecClinics == InitClinics /\ [][NextClinics]_vars

\* ------------------------------------------------------- clinic ownership
\* updateClinic, deleteClinic, switchActiveClinic and updateVet.  A body field
\* is "undefined" when the body does not carry it and NullId when it is null.

\* PUT /clinics/:id behind protect; updates is [primaryVetId]
UpdateClinic(user, id, updates) ==
  /\ IF user.role # "vet"
       THEN Respond("updateClinic", user, <<id, updates>>, 403, {}) /\ UNCHANGED clinics
     ELSE LET vet == TheDoc(vets, user.id[2])
              hasPermission ==
                \/ vet.accessLevel = "Primary" /\ id \in vet.ownedClinics
                \/ /\ vet.accessLevel = "Full Access"
                   /\ vet.currentActiveClinicId # NullId
                   /\ vet.currentActiveClinicId = id
          IN  IF ~hasPermission
                THEN Respond("updateClinic", user, <<id, updates>>, 403, {}) /\ UNCHANGED clinics
              ELSE IF updates.primaryVetId \notin {"undefined", NullId}
                THEN Respond("updateClinic", user, <<id, updates>>, 403, {}) /\ UNCHANGED clinics
              ELSE IF ~Exists(clinics, id)
                THEN Respond("updateClinic", user, <<id, updates>>, 404, {}) /\ UNCHANGED clinics
              ELSE LET c == TheDoc(clinics, id)
                       d == IF updates.primaryVetId = "undefined" THEN c
                            ELSE [c EXCEPT !.primaryVetId = updates.primaryVetId]
                   IN  /\ clinics' = (clinics \ {c}) \cup {d}
                       /\ Respond("updateClinic", user, <<id, updates>>, 200, {d})
  /\ UNCHANGED <<owners, vets, staff, pets, appointments, records, inflight, messages, prescriptions>>

\* mutant of the reset in deleteClinic: the active clinic is left as it is
activeAfterDeleteKept(vet, id) == vet.currentActiveClinicId

\* deleteClinic: the vet's currentActiveClinicId once clinic id is removed
\* from ownedClinics (ownedClinics[0] is any of the remaining ones)
activeAfterDelete(vet, id) ==
  IF vet.currentActiveClinicId # NullId /\ vet.currentActiveClinicId = id
    THEN IF vet.ownedClinics \ {id} # {}
           THEN CHOOSE c \in vet.ownedClinics \ {id} : TRUE
           ELSE NullId
    ELSE vet.currentActiveClinicId

\* DELETE /clinics/:id behind protect, authorize('vet'),
\* authorizeVetAccess('Primary'): Clinic.findByIdAndDelete, then the owner's
\* ownedClinics and currentActiveClinicId
DeleteClinic(user, id) ==
  /\ LET gate == IF authorize({"vet"}, user) # 200 THEN authorize({"vet"}, user)
                 ELSE authorizeVetAccess({"Primary"}, user)
     IN  IF gate # 200
           THEN Respond("deleteClinic", user, <<id>>, gate, {}) /\ UNCHANGED <<clinics, vets>>
         ELSE IF notPrimary(user.id[2])
           THEN Respond("deleteClinic", user, <<id>>, 403, {}) /\ UNCHANGED <<clinics, vets>>
         ELSE IF id \notin TheDoc(vets, user.id[2]).ownedClinics
           THEN Respond("deleteClinic", user, <<id>>, 403, {}) /\ UNCHANGED <<clinics, vets>>
         ELSE IF ~Exists(clinics, id)
           THEN Respond("deleteClinic", user, <<id>>, 404, {}) /\ UNCHANGED <<clinics, vets>>
         ELSE LET vet == TheDoc(vets, user.id[2])
              IN  /\ clinics' = clinics \ {TheDoc(clinics, id)}
                  /\ vets' = (vets \ {vet}) \cup
                       {[vet EXCEPT !.ownedClinics = @ \ {id},
                                    !.currentActiveClinicId = activeAfterDelete(vet, id)]}
                  /\ Respond("deleteClinic", user, <<id>>, 200, {TheDoc(clinics, id)})
  /\ UNCHANGED <<owners, staff, pets, appointments, records, inflight, messages, prescriptions>>

\* POST /vets/switch-clinic behind protect, authorizeVetAccess('Primary')
SwitchActiveClinic(user, clinicId) ==
  /\ LET gate == authorizeVetAccess({"Primary"}, user)
     IN  IF gate # 200
           THEN Respond("switchActiveClinic", user, <<clinicId>>, gate, {}) /\ UNCHANGED vets
         ELSE IF TheDoc(vets, user.id[2]).accessLevel # "Primary"
           THEN Respond("switchActiveClinic", user, <<clinicId>>, 403, {}) /\ UNCHANGED vets
         ELSE IF clinicId \notin TheDoc(vets, user.id[2]).ownedClinics
           THEN Respond("switchActiveClinic", user, <<clinicId>>, 403, {}) /\ UNCHANGED vets
         ELSE LET vet == TheDoc(vets, user.id[2])
              IN  /\ vets' = (vets \ {vet}) \cup {[vet EXCEPT !.currentActiveClinicId = clinicId]}
                  /\ Respond("switchActiveClinic", user, <<clinicId>>, 200, {clinicId})
  /\ UNCHANGED <<owners, clinics, staff, pets, appointments, records, inflight, messages, prescriptions>>

\* mutant of the route's test: the ids are compared as strings
isOwnProfileById(user, id) == id = user.id[2]

\* PUT /vets/:id: req.params.id === req.user.id
isOwnProfile(user, id) == StrictEq(Str(id), user.id)

\* PUT /vets/:id behind protect: the route's own-profile test, then updateVet.
\* updates is [accessLevel, currentActiveClinicId, set], set being the
\* accessLevel an update operator {$set: {accessLevel}} in the body carries;
\* accessLevel and set are "" when the body does not carry them.
UpdateVet(user, id, updates) ==
  /\ LET switches == updates.currentActiveClinicId \notin {"undefined", NullId}
         allowed == \/ StrictEq(user.id, Str(id))
                    \/ /\ Exists(vets, user.id[2])
                       /\ TheDoc(vets, user.id[2]).accessLevel \in {"Primary", "Full Access"}
     IN  IF ~isOwnProfile(user, id)
           THEN Respond("updateVet", user, <<id, updates>>, 403, {}) /\ UNCHANGED vets
         ELSE IF updates.accessLevel # ""
           THEN Respond("updateVet", user, <<id, updates>>, 403, {}) /\ UNCHANGED vets
         ELSE IF switches /\ ~Exists(vets, id)
           THEN Respond("updateVet", user, <<id, updates>>, 404, {}) /\ UNCHANGED vets
         ELSE IF /\ switches
                 /\ IF TheDoc(vets, id).accessLevel = "Primary"
                      THEN updates.currentActiveClinicId \notin TheDoc(vets, id).ownedClinics
                      ELSE StrictEq(user.id, Str(id))
           THEN Respond("updateVet", user, <<id, updates>>, 403, {}) /\ UNCHANGED vets
         ELSE IF ~allowed
           THEN Respond("updateVet", user, <<id, updates>>, 403, {}) /\ UNCHANGED vets
         ELSE IF updates.set # "" /\ updates.set \notin AccessLevels
           THEN Respond("updateVet", user, <<id, updates>>, 400, {}) /\ UNCHANGED vets
         ELSE IF ~Exists(vets, id)
           THEN Respond("updateVet", user, <<id, updates>>, 404, {}) /\ UNCHANGED vets
         ELSE LET v == TheDoc(vets, id)
                  w == [v EXCEPT !.currentActiveClinicId =
                                    IF updates.currentActiveClinicId = "undefined" THEN @
                                    ELSE updates.currentActiveClinicId,
                                 !.accessLevel = IF updates.set = "" THEN @ ELSE updates.set]
              IN  /\ vets' = (vets \ {v}) \cup {w}
                  /\ Respond("updateVet", user, <<id, updates>>, 200, {withoutPasswordHash(w)})
  /\ UNCHANGED <<owners, clinics, staff, pets, appointments, records, inflight, messages, prescriptions>>

\* POST /vets/sub-account behind protect,
\* authorizeVetAccess('Primary', 'Full Access'); the body's fields are those of
\* a veterinarian staff body
CreateSubAccount(user, body) ==
  /\ LET gate == authorizeVetAccess({"Primary", "Full Access"}, user)
         creator == TheDoc(vets, user.id[2])
         s == IF gate # 200 THEN gate
              ELSE IF ~Exists(vets, user.id[2]) THEN 403
              ELSE IF creator.accessLevel \notin {"Primary", "Full Access"} THEN 403
              ELSE IF body.clinicId = NullId THEN 400
              ELSE IF creator.accessLevel = "Primary" /\ body.clinicId \notin creator.ownedClinics
                THEN 403
              ELSE IF /\ creator.accessLevel # "Primary"
                      /\ (creator.currentActiveClinicId = NullId
                            \/ creator.currentActiveClinicId # body.clinicId)
                THEN 403
              ELSE IF body.accessLevel = "Primary" THEN 403
              ELSE IF body.email = "" \/ body.veterinaryId = "" THEN 400
              ELSE IF \E v \in vets : v.email = body.email \/ v.veterinaryId = body.veterinaryId
                THEN 409
              ELSE IF body.phoneNumber = "" \/ body.accessLevel \notin AccessLevels THEN 400
              ELSE 0
     IN  IF s # 0
           THEN Respond("createSubAccount", user, <<body>>, s, {}) /\ UNCHANGED vets
         ELSE /\ Cardinality(vets) < MaxVets
              /\ vets' = vets \cup {staffVet(body)}
              /\ Respond("createSubAccount", user, <<body>>, 201,
                         {withoutPasswordHash(staffVet(body))})
  /\ UNCHANGED <<owners, clinics, staff, pets, appointments, records, inflight, messages, prescriptions>>

\* the requests the ownership handlers are driven with
VetUpdates ==
  {[accessLevel |-> "", currentActiveClinicId |-> "undefined", set |-> "Full Access"],
   [accessLevel |-> "Primary", currentActiveClinicId |-> "undefined", set |-> ""],
   [accessLevel |-> "", currentActiveClinicId |-> "c9", set |-> ""]}

SubAccounts ==
  {StaffBody("veterinarian", "v4@pawpal.test", "555", "lic-v4", a, "", "c1") :
     a \in {"Full Access", "Primary"}}

InitOwnership ==
  /\ owners = {}
  /\ vets = FixtureVets
  /\ clinics = FixtureClinics
  /\ staff = {}
  /\ pets = {Pet("p1", "o1", "c1")}
  /\ appointments = {}
  /\ records = {}
  /\ inflight = <<>>
  /\ messages = {}
  /\ prescriptions = {}
  /\ response = NoResponse

NextOwnership ==
  \/ \E u \in Principals : CreateClinic(u, [name |-> "clinic"])
  \/ \E u \in Principals, id \in {"c1", "c9"},
        b \in {[primaryVetId |-> x] : x \in {"undefined", NullId, "v2"}} : UpdateClinic(u, id, b)
  \/ \E u \in Principals, id \in {"c1", "c3", "c9"} : DeleteClinic(u, id)
  \/ \E u \in Principals, id \in {"c1", "c3"} : SwitchActiveClinic(u, id)
  \/ \E u \in Principals, id \in {"v1", "v3"}, b \in VetUpdates : UpdateVet(u, id, b)
  \/ \E u \in Principals, b \in SubAccounts : AddClinicStaff(u, b)
  \/ \E u \in Principals, b \in SubAccounts : CreateSubAccount(u, b)

SpecOwnership == InitOwnership /\ [][NextOwnership]_vars

\* ------------------------------------------------- owner profiles and chat
\* The routes of /owners/:id in the order they are registered, and
\* POST /chat/send.  Express runs the first route registered for a method and
\* path; a later one runs only when every function of the earlier one has
\* called next(), which a route whose last function is a handler never does.
\* Every response names, as its last argument, the function that sent it.

\* authorizeSelf: req.params.id !== req.user.id for an owner
authorizeSelf(user, id) ==
  IF user.role = "owner" /\ ~StrictEq(Str(id), user.id) THEN 403 ELSE 200

\* GET /owners/:id: protect, authorize('owner'), authorizeSelf, getOwnerById;
\* then protect, authorize('vet'), authorizeVetAccess('Primary'), getOwnerById
GetOwnerById(user, id) ==
  /\ IF authorize({"owner"}, user) # 200
       THEN Respond("getOwnerById", user, <<id, "authorize">>, authorize({"owner"}, user), {})
     ELSE IF authorizeSelf(user, id) # 200
       THEN Respond("getOwnerById", user, <<id, "authorizeSelf">>, 403, {})
     ELSE IF ~Exists(owners, id)
       THEN Respond("getOwnerById", user, <<id, "getOwnerById">>, 404, {})
     ELSE Respond("getOwnerById", user, <<id, "getOwnerById">>, 200,
                  {withoutPasswordHash(TheDoc(owners, id))})
  /\ UNCHANGED <<owners, vets, clinics, staff, pets, appointments, records, inflight,
                 messages, prescriptions>>

\* DELETE /owners/:id: protect, authorize('owner'), authorizeSelf, deleteOwner;
\* then protect, authorize('vet'), authorizeVetAccess('Primary'), deleteOwner.
\* The handler's update names isDeleted and deletedAt, which are not paths of
\* the PetOwner schema, so the stored owner stays as it is.
DeleteOwner(user, id) ==
  /\ IF authorize({"owner"}, user) # 200
       THEN Respond("deleteOwner", user, <<id, "authorize">>, authorize({"owner"}, user), {})
     ELSE IF authorizeSelf(user, id) # 200
       THEN Respond("deleteOwner", user, <<id, "authorizeSelf">>, 403, {})
     ELSE IF ~Exists(owners, id)
       THEN Respond("deleteOwner", user, <<id, "deleteOwner">>, 404, {})
     ELSE Respond("deleteOwner", user, <<id, "deleteOwner">>, 200,
                  {withoutPasswordHash(TheDoc(owners, id))})
  /\ UNCHANGED <<owners, vets, clinics, staff, pets, appointments, records, inflight,
                 messages, prescriptions>>

\* POST /chat/send behind protect; body is [petId, senderId, senderType, content]
SendMessage(user, body) ==
  /\ IF body.petId = NullId \/ body.senderId = NullId \/ body.senderType = ""
          \/ body.content = ""
       THEN Respond("sendMessage", user, <<body>>, 400, {}) /\ UNCHANGED messages
     ELSE IF body.senderType \notin {"Owner", "Vet"}
       THEN Respond("sendMessage", user, <<body>>, 400, {}) /\ UNCHANGED messages
     ELSE IF ~Exists(pets, body.petId)
       THEN Respond("sendMessage", user, <<body>>, 404, {}) /\ UNCHANGED messages
     ELSE LET message == [_id |-> NewId("g", messages), petId |-> body.petId,
                          senderId |-> body.senderId, senderType |-> body.senderType,
                          content |-> body.content]
          IN  /\ Cardinality(messages) < MaxMessages
              /\ messages' = messages \cup {message}
              /\ Respond("sendMessage", user, <<body>>, 201, {message})
  /\ UNCHANGED <<owners, vets, clinics, staff, pets, appointments, records, inflight,
                 prescriptions>>

InitOwners ==
  /\ owners = FixtureOwners
  /\ vets = {v \in FixtureVets : v._id \in {"v1", "v3"}}
  /\ clinics = FixtureClinics
  /\ staff = {}
  /\ pets = {Pet("p1", "o1", "c1")}
  /\ appointments = {}
  /\ records = {}
  /\ inflight = <<>>
  /\ messages = {}
  /\ prescriptions = {}
  /\ response = NoResponse

NextOwners ==
  \/ \E u \in Principals, id \in {"o1", "o2", "o9"} : GetOwnerById(u, id)
  \/ \E u \in Principals, id \in {"o1", "o2", "o9"} : DeleteOwner(u, id)
  \/ \E u \in Principals,
        b \in [petId : {"p1", "p9"}, senderId : {"o1", "v1"},
               senderType : {"Owner", "Vet", "Admin"}, content : {"", "hello"}] :
          SendMessage(u, b)

SpecOwners == InitOwners /\ [][NextOwners]_vars

\* ---------------------------------------------------------------- accounts
\* Registration, login, and activation / deactivation of veterinarians.
\* Here inflight is the set of tokens login has handed out.

\* String.prototype.toLowerCase and trim, on the texts the requests carry
toLowerCase(s) ==
  CASE s = " O1@pawpal.test" -> " o1@pawpal.test"
    [] s = "V3@pawpal.test" -> "v3@pawpal.test"
    [] OTHER -> s

trim(s) ==
  CASE s = " O1@pawpal.test" -> "O1@pawpal.test"
    [] s = " o1@pawpal.test" -> "o1@pawpal.test"
    [] s = " lic-v1" -> "lic-v1"
    [] OTHER -> s

\* registerOwner; body is [email, password], "" for a missing required field.
\* The lookup lower-cases the email, the document stores it lower-cased and
\* trimmed; the unique index on email refuses the save of a second one.
RegisterOwner(body) ==
  /\ IF body.email = "" \/ body.password = ""
       THEN Respond("registerOwner", NoUser, <<body>>, 400, {}) /\ UNCHANGED owners
     ELSE IF \E o \in owners : o.email = toLowerCase(body.email)
       THEN Respond("registerOwner", NoUser, <<body>>, 409, {}) /\ UNCHANGED owners
     ELSE LET owner == [_id |-> NewId("o", owners),
                        email |-> trim(toLowerCase(body.email)),
                        passwordHash |-> bcryptHash(body.password)]
          IN  IF \E o \in owners : o.email = owner.email
                THEN Respond("registerOwner", NoUser, <<body>>, 400, {}) /\ UNCHANGED owners
                ELSE /\ owners' = owners \cup {owner}
                     /\ Respond("registerOwner", NoUser, <<body>>, 201,
                                {withoutPasswordHash(owner)})
  /\ UNCHANGED <<vets, clinics, staff, pets, appointments, records, inflight, messages, prescriptions>>

\* registerVet; body is [email, password, veterinaryId, isPrimaryVet]
RegisterVet(body) ==
  /\ IF body.email = "" \/ body.password = "" \/ body.veterinaryId = ""
       THEN Respond("registerVet", NoUser, <<body>>, 400, {}) /\ UNCHANGED vets
     ELSE IF \E v \in vets : \/ v.email = trim(toLowerCase(body.email))
                            \/ v.veterinaryId = trim(body.veterinaryId)
       THEN Respond("registerVet", NoUser, <<body>>, 409, {}) /\ UNCHANGED vets
     ELSE LET vet == [_id |-> NewId("v", vets),
                      email |-> trim(toLowerCase(body.email)),
                      veterinaryId |-> trim(body.veterinaryId),
                      accessLevel |-> IF body.isPrimaryVet THEN "Primary"
                                      ELSE "Normal Access",
                      ownedClinics |-> {}, clinicId |-> NullId,
                      currentActiveClinicId |-> NullId, status |-> "Active",
                      passwordHash |-> bcryptHash(body.password)]
          IN  /\ Cardinality(vets) < MaxVets
              /\ vets' = vets \cup {vet}
              /\ Respond("registerVet", NoUser, <<body>>, 201, {withoutPasswordHash(vet)})
  /\ UNCHANGED <<owners, clinics, staff, pets, appointments, records, inflight, messages, prescriptions>>

\* generateToken({id, email, role})
generateToken(user, role) == [id |-> user._id, email |-> user.email, role |-> role]

\* login: PetOwner.findOne({email}) first, then
\* Veterinarian.findOne({email, status: 'Active'})
loginUser(email) ==
  IF \E o \in owners : o.email = email
    THEN {[doc |-> o, role |-> "owner"] : o \in {o \in owners : o.email = email}}
    ELSE {[doc |-> v, role |-> "vet"] :
            v \in {v \in vets : v.email = email /\ v.status = "Active"}}

\* POST /auth/login; body is [email, password]
Login(body) ==
  /\ IF body.email = "" \/ body.password = ""
       THEN Respond("login", NoUser, <<body>>, 400, {}) /\ UNCHANGED inflight
     ELSE LET found == loginUser(trim(toLowerCase(body.email)))
          IN  IF found = {}
                THEN Respond("login", NoUser, <<body>>, 401, {}) /\ UNCHANGED inflight
              ELSE LET u == CHOOSE u \in found : TRUE
                   IN  IF ~bcryptCompare(body.password, u.doc.passwordHash)
                         THEN /\ Respond("login", NoUser, <<body>>, 401, {})
                              /\ UNCHANGED inflight
                         ELSE /\ inflight' = inflight \cup {generateToken(u.doc, u.role)}
                              /\ Respond("login", NoUser, <<body>>, 200,
                                         {generateToken(u.doc, u.role)})
  /\ UNCHANGED <<owners, vets, clinics, staff, pets, appointments, records, messages, prescriptions>>

\* GET /auth/me behind protect: PetOwner.findById first, then Veterinarian
GetMe(token) ==
  /\ LET p == protect(token)
     IN  IF p.status # 200
           THEN Respond("getMe", p.user, <<token>>, p.status, {})
         ELSE IF Exists(owners, token.id)
           THEN Respond("getMe", p.user, <<token>>, 200,
                        {[id |-> token.id, email |-> TheDoc(owners, token.id).email,
                          role |-> "owner"]})
         ELSE Respond("getMe", p.user, <<token>>, 200,
                      {[id |-> token.id, email |-> TheDoc(vets, token.id).email,
                        role |-> "vet"]})
  /\ UNCHANGED <<owners, vets, clinics, staff, pets, appointments, records, inflight, messages, prescriptions>>

\* a path parameter Mongoose can cast to an ObjectId; findById rejects with a
\* CastError on any other
isObjectId(id) == id # "not-an-id"

\* the route handler of PATCH /vets/:id/deactivate up to its call of
\* deactivateVet: the status it answers with, 0 when it goes on, and -1 when
\* a lookup throws (the handler has no try / catch)
deactivateRoute(user, id) ==
  IF authorizeVetAccess({"Primary"}, user) # 200 THEN 403
  ELSE IF StrictEq(Str(id), user.id) THEN 400
  ELSE IF ~Exists(vets, user.id[2]) THEN 404
  ELSE IF ~isObjectId(id) THEN -1
  ELSE IF ~Exists(vets, id) THEN 404
  ELSE LET requester == TheDoc(vets, user.id[2])
           targetVet == TheDoc(vets, id)
       IN  IF /\ requester.accessLevel = "Primary"
              /\ targetVet.currentActiveClinicId # NullId
              /\ targetVet.currentActiveClinicId \in requester.ownedClinics
             THEN 0 ELSE 403

\* PATCH /vets/:id/deactivate behind protect and authorizeVetAccess('Primary'):
\* the route handler, then deactivateVet.  forwarded: whether the router hands
\* a rejected handler promise to the error middleware (500) or drops it and
\* leaves the request unanswered (status 0).
DeactivateVet(token, id, forwarded) ==
  /\ LET p == protect(token)
         s == IF p.status # 200 THEN p.status ELSE deactivateRoute(p.user, id)
     IN  IF s = -1
           THEN /\ Respond("deactivateVet", p.user, <<id>>, IF forwarded THEN 500 ELSE 0, {})
                /\ UNCHANGED vets
         ELSE IF s # 0
           THEN Respond("deactivateVet", p.user, <<id>>, s, {}) /\ UNCHANGED vets
         ELSE IF TheDoc(vets, p.user.id[2]).accessLevel # "Primary"
           THEN Respond("deactivateVet", p.user, <<id>>, 403, {}) /\ UNCHANGED vets
         ELSE IF StrictEq(p.user.id, Str(id))
           THEN Respond("deactivateVet", p.user, <<id>>, 400, {}) /\ UNCHANGED vets
         ELSE /\ vets' = (vets \ {TheDoc(vets, id)})
                           \cup {[TheDoc(vets, id) EXCEPT !.status = "Deactivated"]}
              /\ Respond("deactivateVet", p.user, <<id>>, 200,
                         {[_id |-> id, status |-> "Deactivated"]})
  /\ UNCHANGED <<owners, clinics, staff, pets, appointments, records, inflight, messages, prescriptions>>

\* PATCH /vets/:id/activate behind protect and authorizeVetAccess('Primary')
ActivateVet(token, id) ==
  /\ LET p == protect(token)
         user == p.user
     IN  IF p.status # 200
           THEN Respond("activateVet", user, <<id>>, p.status, {}) /\ UNCHANGED vets
         ELSE IF authorizeVetAccess({"Primary"}, user) # 200
           THEN Respond("activateVet", user, <<id>>, 403, {}) /\ UNCHANGED vets
         ELSE IF TheDoc(vets, user.id[2]).accessLevel # "Primary"
           THEN Respond("activateVet", user, <<id>>, 403, {}) /\ UNCHANGED vets
         ELSE IF ~isObjectId(id)
           THEN Respond("activateVet", user, <<id>>, 500, {}) /\ UNCHANGED vets
         ELSE IF ~Exists(vets, id)
           THEN Respond("activateVet", user, <<id>>, 404, {}) /\ UNCHANGED vets
         ELSE IF TheDoc(vets, id).status = "Active"
           THEN Respond("activateVet", user, <<id>>, 400, {}) /\ UNCHANGED vets
         ELSE IF ~(/\ TheDoc(vets, id).currentActiveClinicId # NullId
                   /\ TheDoc(vets, id).currentActiveClinicId
                        \in TheDoc(vets, user.id[2]).ownedClinics)
           THEN Respond("activateVet", user, <<id>>, 403, {}) /\ UNCHANGED vets
         ELSE /\ vets' = (vets \ {TheDoc(vets, id)})
                           \cup {[TheDoc(vets, id) EXCEPT !.status = "Active"]}
              /\ Respond("activateVet", user, <<id>>, 200,
                         {[id |-> id, email |-> TheDoc(vets, id).email, status |-> "Active"]})
  /\ UNCHANGED <<owners, clinics, staff, pets, appointments, records, inflight, messages, prescriptions>>

\* the requests the account handlers are driven with
OwnerRegistrations ==
  {[email |-> e, password |-> "pw-new"] :
     e \in {"o1@pawpal.test", " O1@pawpal.test", "v3@pawpal.test", ""}}

VetRegistrations ==
  {[email |-> "n2@pawpal.test", password |-> "pw-n2", veterinaryId |-> "lic-n2",
    isPrimaryVet |-> FALSE],
   [email |-> "n2@pawpal.test", password |-> "pw-n2", veterinaryId |-> " lic-v1",
    isPrimaryVet |-> FALSE],
   [email |-> "V3@pawpal.test", password |-> "pw-n2", veterinaryId |-> "lic-n3",
    isPrimaryVet |-> TRUE],
   [email |-> "n2@pawpal.test", password |-> "", veterinaryId |-> "lic-n2",
    isPrimaryVet |-> FALSE]}

Logins ==
  {[email |-> "o1@pawpal.test", password |-> "pw-o1"],
   [email |-> "v1@pawpal.test", password |-> "pw-v1"],
   [email |-> "V3@pawpal.test", password |-> "pw-v3"],
   [email |-> "v3@pawpal.test", password |-> "pw-v3"],
   [email |-> "v3@pawpal.test", password |-> "pw-new"],
   [email |-> "v3@pawpal.test", password |-> "guess"],
   [email |-> "zz@pawpal.test", password |-> "pw-o1"],
   [email |-> "", password |-> ""]}

\* tokens of the earlier login, which signed the id alone, and a token whose
\* account is in neither collection
LegacyTokens == {Token(id, "") : id \in {"o1", "v1", "v3", "zz"}}

InitAccounts ==
  /\ owners = {Owner("o1")}
  /\ vets = FixtureVets
  /\ clinics = FixtureClinics
  /\ staff = {}
  /\ pets = {}
  /\ appointments = {}
  /\ records = {}
  /\ inflight = {}
  /\ messages = {}
  /\ prescriptions = {}
  /\ response = NoResponse

NextAccounts ==
  \/ \E body \in OwnerRegistrations : RegisterOwner(body)
  \/ \E body \in VetRegistrations : RegisterVet(body)
  \/ \E body \in Logins : Login(body)
  \/ \E token \in inflight \cup LegacyTokens : GetMe(token)
  \/ \E token \in inflight, id \in {"v1", "v3", "zz", "not-an-id"}, forwarded \in BOOLEAN :
       DeactivateVet(token, id, forwarded)
  \/ \E token \in inflight, id \in {"v1", "v3", "zz", "not-an-id"} : ActivateVet(token, id)

SpecAccounts == InitAccounts /\ [][NextAccounts]_vars

\* ------------------------------------------------------------------ claims

\* C1: requests served one after another (book, cancel, confirm) never leave
\* two appointments with a status outside {Canceled, Completed} that share
\* both vetId and dateTime.
C1_NoDoubleBooking ==
  \A a, b \in appointments :
    (a._id # b._id /\ a.status \notin Terminal /\ b.status \notin Terminal)
      => ~(a.vetId = b.vetId /\ a.dateTime = b.dateTime)

C1_Witness ==
  /\ Cardinality(appointments) = 2
  /\ \E a \in appointments : a.status = "Confirmed"
  /\ \A a, b \in appointments : a.vetId = b.vetId
  /\ response.op = "bookAppointment" /\ response.status = 409

\* the instant a booking request asks for, and whether it names one
AskedInstant(body) == body.dateTime.hour - body.dateTime.offset
AsksInstant(body) == body.dateTime.given /\ body.dateTime.valid

\* an appointment that holds the slot a booking request asks for
HoldsSlot(a, body) ==
  a.vetId = body.vetId /\ a.dateTime = AskedInstant(body) /\ a.status \notin Terminal

C3_SaveNeverRejected ==
  [][\A r \in Requests :
       (Saving(r) /\ ~Saving(r)')
         => (/\ inflight'[r].status = 201
             /\ Cardinality(appointments') = Cardinality(appointments) + 1
             /\ \E a \in appointments' \ appointments :
                  /\ a.status = "Booked"
                  /\ a.vetId = inflight[r].body.vetId
                  /\ a.dateTime = AskedInstant(inflight[r].body))]_vars

C3_Witness ==
  /\ \A r \in Requests : inflight[r].pc = "idle" /\ inflight[r].status = 201
  /\ \E a, b \in appointments :
       /\ a._id # b._id /\ a.vetId = b.vetId /\ a.dateTime = b.dateTime
       /\ a.status = "Booked" /\ b.status = "Booked"

\* C5: an owner who is not the owner an appointment (a pet) refers to gets 403
\* and no appointment data from getAppointmentById (getAppointmentsByPet).
C5_OtherOwnerDenied ==
  /\ (/\ response.op = "getAppointmentById"
      /\ response.user.role = "owner"
      /\ \E a \in appointments : a._id = response.args[1] /\ Oid(a.ownerId) # response.user.id)
       => (response.status = 403 /\ response.data = {})
  /\ (/\ response.op = "getAppointmentsByPet"
      /\ response.user.role = "owner"
      /\ \E p \in pets : p._id = response.args[1] /\ Oid(p.ownerId) # response.user.id)
       => (response.status = 403 /\ response.data = {})

C5_Witness ==
  /\ response.op = "getAppointmentById" /\ response.status = 403
  /\ response.user.role = "owner"
  /\ \E a \in appointments : a._id = response.args[1] /\ Oid(a.ownerId) # response.user.id

\* C4: updatePet, deletePet and requestClinicRegistration called by an owner
\* whose id differs from the pet's ownerId respond 403 and leave the pet
\* unchanged.
C4_OtherOwnerRejected ==
  [][(/\ response'.op \in {"updatePet", "deletePet", "requestClinicRegistration"}
      /\ response'.user.role = "owner"
      /\ \E p \in pets : p._id = response'.args[1] /\ Oid(p.ownerId) # response'.user.id)
       => (response'.status = 403 /\ pets' = pets)]_vars

\* C10: registrationStatus only ever moves from Pending to Approved or from
\* Pending to Rejected; an Approved or Rejected pet keeps its status.
C10_StatusOnlyLeavesPending ==
  [][\A p \in pets : \A q \in pets' :
       (p._id = q._id /\ p.registrationStatus # q.registrationStatus)
         => (p.registrationStatus = "Pending"
             /\ q.registrationStatus \in {"Approved", "Rejected"})]_vars

\* C6: getRecordById called by an owner for a record whose pet belongs to
\* another owner responds 403, also when the record is visible to owners.
C6_OtherOwnersRecordDenied ==
  (/\ response.op = "getRecordById"
   /\ response.user.role = "owner"
   /\ \E r \in records, p \in pets :
        r._id = response.args[1] /\ p._id = r.petId /\ Oid(p.ownerId) # response.user.id)
    => response.status = 403

\* C7: a record whose visibleToOwner is false is never part of the owner
\* listing of its pet (the listing an owner gets, or any listing asked with
\* ownerView = 'true'), and getRecordById on it by an owner responds 403.
C7_HiddenStaysHidden ==
  /\ (/\ response.op = "getRecordsByPet"
      /\ (response.user.role = "owner" \/ response.args[2] = "true"))
       => \A r \in records : ~r.visibleToOwner => r \notin response.data
  /\ (/\ response.op = "getRecordById"
      /\ response.user.role = "owner"
      /\ \E r \in records : r._id = response.args[1] /\ ~r.visibleToOwner)
       => (response.status = 403 /\ response.data = {})

C7_Witness ==
  /\ response.op = "getRecordsByPet" /\ response.status = 200
  /\ response.args[2] = "true" /\ response.data # {}
  /\ \E r \in records : r.petId = response.args[1] /\ ~r.visibleToOwner

C9_OwnedClinicsOnly ==
  [][(/\ response'.op = "addClinicStaff"
      /\ response'.user.accessLevel = "Primary"
      /\ response'.args[1].clinicId # NullId
      /\ response'.args[1].clinicId \notin response'.user.ownedClinics)
       => (response'.status = 403 /\ vets' = vets /\ staff' = staff)]_vars

\* the pet a registration decision names, and whether the acting vet may
\* decide it: Pending, at the vet's currentActiveClinicId (else clinicId)
DecidedPets(r) == {p \in pets : p._id = r.args[1]}
ActingClinic(r) ==
  LET v == CHOOSE v \in vets : Oid(v._id) = r.user.id
  IN  IF v.currentActiveClinicId # NullId THEN v.currentActiveClinicId ELSE v.clinicId
Decidable(r) ==
  /\ ActingClinic(r) # NullId
  /\ \E p \in DecidedPets(r) :
       p.registrationStatus = "Pending" /\ p.registeredClinicId = ActingClinic(r)
IsDecision(r) ==
  r.op \in {"approvePetRegistration", "rejectPetRegistration"} /\ r.user.role = "vet"

C13_DuplicateIsConflict ==
  [][/\ ((/\ response'.op = "registerOwner"
           /\ response'.args[1].password # ""
           /\ \E o \in owners : o.email = trim(toLowerCase(response'.args[1].email)))
            => (response'.status = 409 /\ owners' = owners))
     /\ ((/\ response'.op = "registerVet"
           /\ response'.args[1].password # ""
           /\ \E v \in vets :
                \/ v.email = trim(toLowerCase(response'.args[1].email))
                \/ v.veterinaryId = trim(response'.args[1].veterinaryId))
            => (response'.status = 409 /\ vets' = vets))]_vars

\* C14: no response body contains the passwordHash of a clinic staff account,
\* in the registration response of addClinicStaff or in the response of a
\* later endpoint that returns the account (updateClinicStaff).
C14_NoPasswordHashReturned ==
  response.op \in {"addClinicStaff", "updateClinicStaff"}
    => \A d \in response.data : "passwordHash" \notin DOMAIN d

\* C15: after deleteMedicalRecord succeeds the record is still stored, so
\* that getRecordById still returns it.
C15_DeletedRecordKept ==
  [][(response'.op = "deleteMedicalRecord" /\ response'.status = 200)
       => \E r \in records' : r._id = response'.args[1]]_vars

\* C16: for every owner and every Active veterinarian, login with the
\* account's email and password answers 200 with a token embedding the
\* account's id, email and role, and protect applied to that token attaches
\* a principal with the same id and role.
C16_LoginRoundTrip ==
  [][response'.op = "login" =>
       \A a \in {[doc |-> o, role |-> "owner"] : o \in owners}
                \cup {[doc |-> v, role |-> "vet"] : v \in {v \in vets : v.status = "Active"}} :
         (/\ a.doc.email = trim(toLowerCase(response'.args[1].email))
          /\ bcryptCompare(response'.args[1].password, a.doc.passwordHash))
           => /\ response'.status = 200
              /\ response'.data = {generateToken(a.doc, a.role)}
              /\ protect(generateToken(a.doc, a.role)).user.id = Oid(a.doc._id)
              /\ protect(generateToken(a.doc, a.role)).user.role = a.role]_vars

C18_CancelIffOwnerOrVet ==
  [][\A a \in appointments :
       (response'.op = "cancelAppointment" /\ response'.args[1] = a._id) =>
         IF \/ response'.user.id = Oid(TheDoc(pets, a.petId).ownerId)
            \/ response'.user.id = Oid(a.vetId)
           THEN /\ response'.status = 200
                /\ \E b \in appointments' : b._id = a._id /\ b.status = "Canceled"
           ELSE response'.status = 403 /\ appointments' = appointments]_vars

\* C19: an owner authenticated through protect is allowed on their own
\* resources: getAppointmentById answers 200 for an appointment whose
\* ownerId is the principal's id.
C19_OwnAppointmentAllowed ==
  (/\ response.op = "getAppointmentById"
   /\ response.user.role = "owner"
   /\ \E a \in appointments : a._id = response.args[1] /\ Oid(a.ownerId) = response.user.id)
    => response.status = 200

\* C20: every request a handler has finished with has received a response
\* with an HTTP status, also when a database lookup throws inside the
\* route-level handler of PATCH /vets/:id/deactivate.
C20_EveryRequestAnswered ==
  response.op # "" => response.status \in 100..599

\* C21: after any sequence of createClinic, updateClinic, switchActiveClinic
\* and deleteClinic requests, a clinic is in a vet's ownedClinics exactly when
\* the clinic exists and its primaryVetId is that vet; every clinic has
\* exactly one owning Primary vet.
C21_OwnedIffPrimaryVet ==
  /\ \A v \in vets : \A c \in v.ownedClinics :
       \E d \in clinics : d._id = c /\ d.primaryVetId = v._id
  /\ \A d \in clinics :
       /\ Cardinality({v \in vets : d._id \in v.ownedClinics}) = 1
       /\ \A v \in vets : d.primaryVetId = v._id => d._id \in v.ownedClinics
       /\ \E v \in vets : v.accessLevel = "Primary" /\ d.primaryVetId = v._id

\* C22: no createSubAccount, addClinicStaff or updateVet request creates a
\* vet with accessLevel Primary or changes the accessLevel or ownedClinics of
\* an existing vet, and every vet with a non-empty ownedClinics is Primary.
C22_NoPrimaryFromSubAccounts ==
  [][/\ response'.op \in {"createSubAccount", "addClinicStaff", "updateVet"} =>
          /\ \A v \in vets : \E w \in vets' :
               /\ w._id = v._id
               /\ w.accessLevel = v.accessLevel
               /\ w.ownedClinics = v.ownedClinics
          /\ \A w \in vets' : (~\E v \in vets : v._id = w._id) =>
               w.accessLevel # "Primary" /\ w.ownedClinics = {}
     /\ \A w \in vets' : w.ownedClinics # {} => w.accessLevel = "Primary"]_vars

C22_Witness ==
  /\ response.op = "createSubAccount"
  /\ response.status = 201
  /\ \E v \in vets : v._id = "v4" /\ v.accessLevel = "Full Access"

\* C26: after any sequence of createClinic, switchActiveClinic, updateVet and
\* deleteClinic requests, every Primary vet's currentActiveClinicId is one of
\* the vet's ownedClinics when there are any and null when there are none.
C26_ActiveClinicIsOwned ==
  \A v \in vets : v.accessLevel = "Primary" =>
    IF v.ownedClinics = {} THEN v.currentActiveClinicId = NullId
    ELSE v.currentActiveClinicId \in v.ownedClinics

C26_Witness ==
  /\ response.op = "deleteClinic"
  /\ response.status = 200
  /\ response.args[1] = "c1"
  /\ \E v \in vets : /\ Oid(v._id) = response.user.id
                     /\ v.ownedClinics = {"c3"}
                     /\ v.currentActiveClinicId = "c3"

\* C27: every clinic reference held by another record (a sub-account vet's
\* currentActiveClinicId, a pet's registeredClinicId, a ClinicStaff's clinicId,
\* an appointment's clinicId) is the _id of a stored clinic, also after
\* deleteClinic has succeeded.
C27_ClinicReferencesResolve ==
  /\ \A v \in vets : (v.accessLevel # "Primary" /\ v.currentActiveClinicId # NullId)
       => Exists(clinics, v.currentActiveClinicId)
  /\ \A p \in pets : p.registeredClinicId # NullId => Exists(clinics, p.registeredClinicId)
  /\ \A m \in staff : Exists(clinics, m.clinicId)
  /\ \A a \in appointments : Exists(clinics, a.clinicId)

\* C23: deleteVet called by a Primary vet on another, non-Primary vet whose
\* active clinic the caller owns responds 200 and leaves the target stored
\* with status Deleted; for any other caller or target it responds 400 or 403
\* and changes nothing.
C23_DeleteVetMarksDeleted ==
  [][response'.op = "deleteVet" =>
       LET caller == response'.user
           id == response'.args[1]
           permitted ==
             /\ caller.role = "vet" /\ caller.accessLevel = "Primary"
             /\ Oid(id) # caller.id
             /\ \E v \in vets : /\ v._id = id
                                /\ v.accessLevel # "Primary"
                                /\ v.currentActiveClinicId \in
                                     TheDoc(vets, caller.id[2]).ownedClinics
       IN  IF permitted
             THEN /\ response'.status = 200
                  /\ \E w \in vets' : w._id = id /\ w.status = "Deleted"
             ELSE response'.status \in {400, 403, 404} /\ vets' = vets]_vars

\* C24: bookAppointment creates an appointment only when the caller is the
\* owner principal whose id is the ownerId of the pet being booked; any other
\* caller booking a stored pet is refused (403, or another 4xx when the body is
\* itself invalid) and no appointment is created.
C24_OnlyThePetsOwnerBooks ==
  [][(response'.op = "bookAppointment" /\ Exists(pets, response'.args.petId)) =>
       LET own == /\ response'.user.role = "owner"
                  /\ response'.user.id = Oid(TheDoc(pets, response'.args.petId).ownerId)
       IN  /\ appointments' # appointments => own
           /\ ~own => response'.status \in 400..499 /\ appointments' = appointments]_vars

\* C25: a Primary vet's DELETE /owners/:id reaches deleteOwner and a Primary
\* vet's GET /owners/:id reaches getOwnerById: no function of a route
\* registered earlier for the same method and path answers the request first.
C25_PrimaryVetReachesHandler ==
  [][(/\ response'.op \in {"deleteOwner", "getOwnerById"}
      /\ response'.user.role = "vet"
      /\ response'.user.accessLevel = "Primary")
       => response'.args[2] = response'.op]_vars

\* C29: every ChatMessage sendMessage stores has the senderId of the
\* authenticated principal who made the request and the senderType of that
\* principal's role (Owner for an owner, Vet for a vet).
C29_SenderIsThePrincipal ==
  [][response'.op = "sendMessage" =>
       \A m \in messages' \ messages :
         /\ Oid(m.senderId) = response'.user.id
         /\ m.senderType = IF response'.user.role = "owner" THEN "Owner" ELSE "Vet"]_vars

\* C28: whenever requestClinicRegistration responds 200, the pet afterwards
\* has registrationStatus Pending and registeredClinicId equal to the
\* requested clinicId, also a pet that was created without a clinic.
C28_RequestRegistersAtClinic ==
  [][(response'.op = "requestClinicRegistration" /\ response'.status = 200) =>
       \E p \in pets' : /\ p._id = response'.args[1]
                        /\ p.registrationStatus = "Pending"
                        /\ p.registeredClinicId = response'.args[2]]_vars

\* C30 as stated: no response to an owner depends on a record whose
\* visibleToOwner is false, neither on its diagnosis or date nor on whether it
\* exists: an owner asking for a hidden record is answered as for a record
\* that is not stored, and listings, summaries and prescriptions carry only
\* what the visible records give.
C30_Original ==
  response.user.role = "owner" =>
    LET visible == {r \in records : r.visibleToOwner}
    IN  /\ response.op = "getRecordsByPet" => response.data \subseteq visible
        /\ (response.op = "getRecordById" /\ ~Exists(visible, response.args[1]))
             => (response.status = 404 /\ response.data = {})
        /\ response.op = "getMedicalSummaryByPet" =>
             \A d \in response.data :
               /\ d.totalRecords = d.visibleToOwner
               /\ \A l \in d.latestVisit : Exists(visible, l._id)
        /\ response.op = "getPrescriptionsByPet" =>
             \A d \in response.data : \A l \in d.medicalRecordId : Exists(visible, l._id)

\* C30: no response to an owner carries anything of a record whose
\* visibleToOwner is false: listings, summaries and prescriptions give an
\* owner only what the visible records give, and getRecordById answers an
\* owner's request for a hidden record with 403 and no data, whatever the
\* record holds (for a record that is not stored it answers 404).
C30_Amended ==
  response.user.role = "owner" =>
    LET visible == {r \in records : r.visibleToOwner}
    IN  /\ response.op = "getRecordsByPet" => response.data \subseteq visible
        /\ (response.op = "getRecordById" /\ ~Exists(visible, response.args[1]))
             => /\ response.data = {}
                /\ response.status = IF Exists(records, response.args[1]) THEN 403 ELSE 404
        /\ response.op = "getMedicalSummaryByPet" =>
             \A d \in response.data :
               /\ d.totalRecords = d.visibleToOwner
               /\ \A l \in d.latestVisit : Exists(visible, l._id)
        /\ response.op = "getPrescriptionsByPet" =>
             \A d \in response.data : \A l \in d.medicalRecordId : Exists(visible, l._id)

C30_Witness ==
  /\ response.user.role = "owner"
  /\ response.op = "getRecordById"
  /\ response.status = 403
  /\ \E r \in records : r._id = response.args[1] /\ ~r.visibleToOwner
  /\ \E x \in prescriptions : x.medicalRecordId = response.args[1]
====
